---- MODULE Spec2Model ----
(***************************************************************************)
(* Secure-Vault: the vault's storage engine (four localforage stores),     *)
(* password authentication, the AuthProvider / CryptoProvider /            *)
(* DataProvider contexts and the settings page's export, import and reset. *)
(*                                                                         *)
(* Cryptography is symbolic: a derived key is the pair (password, salt),   *)
(* an AES-GCM ciphertext is the term (key, iv, plaintext) and opens only   *)
(* under the same key and iv.  Every handler is one atomic action, except *)
(* in SpecAsync, where the item handlers are suspended at their awaits,    *)
(* and in SpecLoading, where initialize and login are.                     *)
(*                                                                         *)
(*   Spec         every handler over a storage backend whose calls succeed *)
(*   SpecFail     the writing handlers, with storage writes, encryption    *)
(*                and store clears that may reject                         *)
(*   SpecSession  sessions over one vault, with a longer audit log         *)
(*   SpecItems    the item handlers over two records, with export, import  *)
(*                and reset                                                *)
(*   SpecImport   import of the backup and of files that are no backup     *)
(*   SpecAudit    getAuditLogs over the audit logs of up to MaxLog events  *)
(*   SpecChaff    addChaffToData, removeChaffFromData and shuffleArray     *)
(*                over the outcomes of their random draws                  *)
(*   SpecEnvelope encryptData and decryptData on the envelope's texts,     *)
(*                altered or not                                           *)
(*   SpecAsync    the item handlers step by step, with logins and logouts  *)
(*                between the steps                                        *)
(*   SpecRotation logins over the days of a key rotation period            *)
(*   SpecLog      logAuditEvent over the ids it stores its entries under   *)
(*   SpecLoading  initialize and login in two steps, calls overlapping,    *)
(*                with weak fairness of the step after the await           *)
(***************************************************************************)
EXTENDS Integers, Sequences, FiniteSets, TLC

VARIABLES
    keyStore,         \* localforage store 'keyStore':   key id -> exported key
    dataStore,        \* localforage store 'dataStore':  item id -> stored value
    metaStore,        \* localforage store 'metaStore':  meta id -> value
    auditStore,       \* localforage store 'auditStore': events in insertion order
    isAuthenticated,  \* AuthProvider state
    isInitialized,    \* AuthProvider state
    isLoading,        \* AuthProvider state
    masterKey,        \* AuthProvider state: the in-memory CryptoKey or NoKey
    items,            \* DataProvider state: decrypted items, newest first
    error,            \* DataProvider state: error message or NoError
    mounted,          \* the mount effect (checkInitialization) has completed
    now,              \* Date.now(), in days
    nextId,           \* number of item ids generated so far
    exportFile,       \* the backup file the user holds (last export) or NoFile
    lastCall,         \* the last handler that ran, its arguments and its result
    tracked,          \* history: the last created item and what happened since
    vault,            \* history: password and salt of the last successful
                      \* initializeAuth
    faults,           \* history: handler calls in which a write, an encryption
                      \* or a clear rejected
    calls             \* SpecAsync: the DataProvider calls made, each with its
                      \* closure and the step it is suspended at;
                      \* SpecLoading: the AuthProvider calls made

vars == <<keyStore, dataStore, metaStore, auditStore, isAuthenticated,
          isInitialized, isLoading, masterKey, items, error, mounted, now,
          nextId, exportFile, lastCall, tracked, vault, faults, calls>>

storeVars == <<keyStore, dataStore, metaStore, auditStore>>
authVars  == <<isAuthenticated, isInitialized, isLoading, masterKey>>
dataVars  == <<items, error>>

(***************************************************************************)
(* Bounds of the model.                                                    *)
(***************************************************************************)
MaxItems       == 1   \* item ids generated in one behaviour
ListItems      == 2   \* the same, in SpecItems
ListAudit      == 4   \* audit events held by the audit store in SpecItems
MaxLog         == 3   \* audit events held by the audit store in SpecAudit
MaxAudit       == 3   \* audit events held by the audit store
SessionAudit   == 5   \* the same, in SpecSession
MaxTicks       == 1   \* clock advances in one behaviour
MaxFaultyCalls == 1   \* handler calls of one behaviour that hit a rejection

Passwords == {"P1", "P2"}
Salts     == {1, 2}           \* outcomes of generateSalt
IVs       == {1}              \* outcomes of the random IV
OneSalt   == {1}              \* the salts drawn in SpecFail and SpecSession
OnePassword == {"P1"}         \* the passwords typed in SpecItems

(***************************************************************************)
(* Program constants.                                                      *)
(***************************************************************************)
\* The clock is kept in whole days: Date.now() is now * 86 400 000 ms, so
\* (Date.now() - lastRotation) / (1000 * 60 * 60 * 24) is now - lastRotation.
RotationDays == 30
TickDays     == RotationDays      \* one clock advance is one rotation period

(***************************************************************************)
(* Values.                                                                 *)
(***************************************************************************)
NoKey   == [tag |-> "null"]
NoError == "null"
NoFile  == [tag |-> "none"]
NoItem  == [tag |-> "none"]
Empty   == [x \in {} |-> TRUE]

Put(f, k, v) == [x \in DOMAIN f \cup {k} |-> IF x = k THEN v ELSE f[x]]
Remove(f, k) == [x \in DOMAIN f \ {k} |-> f[x]]
Has(f, k)    == k \in DOMAIN f

StorageErrorMsg == "storage write failed"

(***************************************************************************)
(* utils/crypto: key derivation, key export/import, the AES-GCM envelope.  *)
(***************************************************************************)
\* the hex text initializeAuth stores for a salt, and its parse
SaltToHex(salt) == [tag |-> "hex", bytes |-> salt]
HexToSalt(hex)  == hex.bytes

\* a derivation that forgets the password: every password yields one key
DeriveKeyFromSaltOnly(password, salt) ==
    [tag |-> "key", pw |-> "P1", salt |-> salt]

\* PBKDF2: deterministic, injective in (password, salt)
DeriveKeyFromPassword(password, salt) ==
    [tag |-> "key", pw |-> password, salt |-> salt]

\* raw-byte (base64) form of a CryptoKey, and back
ExportKey(key)     == [tag |-> "raw", pw |-> key.pw, salt |-> key.salt]
ImportKey(keyData) == [tag |-> "key", pw |-> keyData.pw, salt |-> keyData.salt]

JsonStringify(value) == [tag |-> "json", v |-> value]
IsJson(text)         == text.tag = "json"
JsonParse(text)      == text.v

\* encryptData: JSON text of the value sealed under (key, iv)
EncryptData(data, key, iv) ==
    [ciphertext |-> [tag |-> "aesgcm", k |-> key, n |-> iv,
                     p |-> JsonStringify(data)],
     iv |-> iv]

\* a tag verification that does not depend on the key
DecryptOkAnyKey(ciphertext, iv, key) ==
    /\ ciphertext.tag = "aesgcm"
    /\ ciphertext.n = iv

\* decryptData throws unless the tag verifies: same key, same iv, a
\* ciphertext that encryptData produced
DecryptOk(ciphertext, iv, key) ==
    /\ ciphertext.tag = "aesgcm"
    /\ ciphertext.k = key
    /\ ciphertext.n = iv

DecryptData(ciphertext, iv, key) == JsonParse(ciphertext.p)

IsEnvelope(value) ==
    /\ DOMAIN value = {"ciphertext", "iv"}
    /\ value.ciphertext.tag = "aesgcm"

(***************************************************************************)
(* CryptoProvider: encrypt / decrypt with the in-memory master key.  Both  *)
(* swallow every failure and return null (NoItem).                         *)
(***************************************************************************)
CryptoEncrypt(key, data, iv, cryptoFails) ==
    IF key = NoKey \/ cryptoFails THEN NoItem ELSE EncryptData(data, key, iv)

CryptoDecrypt(key, ciphertext, iv) ==
    IF key = NoKey THEN NoItem
    ELSE IF DecryptOk(ciphertext, iv, key)
         THEN DecryptData(ciphertext, iv, key)
         ELSE NoItem

(***************************************************************************)
(* utils/storage.  A store state st is the record of the four stores.      *)
(***************************************************************************)
StoreKey(st, keyId, keyData) == [st EXCEPT !.key = Put(@, keyId, keyData)]
GetKey(st, keyId)   == IF Has(st.key, keyId) THEN st.key[keyId] ELSE NoKey
\* a storeData whose write is lost
StoreDataLost(st, dataId, encryptedData) == st
StoreData(st, dataId, encryptedData) ==
    [st EXCEPT !.data = Put(@, dataId, encryptedData)]
GetData(st, dataId) == IF Has(st.data, dataId) THEN st.data[dataId] ELSE NoItem
\* a removeData that clears the whole store
RemoveDataAll(st, dataId) == [st EXCEPT !.data = Empty]
RemoveData(st, dataId) == [st EXCEPT !.data = Remove(@, dataId)]
StoreMeta(st, metaId, metadata) == [st EXCEPT !.meta = Put(@, metaId, metadata)]
HasMeta(st, metaId) == Has(st.meta, metaId)
GetMeta(st, metaId) == st.meta[metaId]

LogAuditEvent(st, event) == [st EXCEPT !.audit = Append(@, event)]

IsVaultInitialized(st) ==
    HasMeta(st, "vaultInitialized") /\ GetMeta(st, "vaultInitialized") = TRUE
SetVaultInitialized(st) == StoreMeta(st, "vaultInitialized", TRUE)

\* store iteration visits the keys in ascending key order
RECURSIVE SortedIds(_)
SortedIds(S) ==
    IF S = {} THEN <<>>
    ELSE LET m == CHOOSE x \in S : \A y \in S : x <= y
         IN  <<m>> \o SortedIds(S \ {m})
ListData(st) == SortedIds(DOMAIN st.data)

\* Array.prototype.sort with (a, b) => b.k - a.k is a stable descending
\* sort; the elements are [k |-> sort key, v |-> element]
RECURSIVE InsertDesc(_, _)
InsertDesc(sorted, x) ==
    IF sorted = <<>> THEN <<x>>
    ELSE IF Head(sorted).k >= x.k
         THEN <<Head(sorted)>> \o InsertDesc(Tail(sorted), x)
         ELSE <<x>> \o sorted
RECURSIVE SortDesc(_)
SortDesc(seq) ==
    IF seq = <<>> THEN <<>>
    ELSE InsertDesc(SortDesc(SubSeq(seq, 1, Len(seq) - 1)), seq[Len(seq)])

\* a listing left in the order of the store's iteration
SortByUpdatedAtSkipped(seq) == seq
SortByUpdatedAt(seq) ==
    LET keyed  == [i \in 1..Len(seq) |-> [k |-> seq[i].updatedAt, v |-> seq[i]]]
        sorted == SortDesc(keyed)
    IN  [i \in 1..Len(seq) |-> sorted[i].v]

\* a sort by timestamp, oldest first
SortByTimestampAscending(seq) ==
    LET keyed  == [i \in 1..Len(seq) |-> [k |-> 0 - seq[i].timestamp, v |-> seq[i]]]
        sorted == SortDesc(keyed)
    IN  [i \in 1..Len(seq) |-> sorted[i].v]

SortByTimestamp(seq) ==
    LET keyed  == [i \in 1..Len(seq) |-> [k |-> seq[i].timestamp, v |-> seq[i]]]
        sorted == SortDesc(keyed)
    IN  [i \in 1..Len(seq) |-> sorted[i].v]

\* a getAuditLogs that sorts the whole log before it selects the page
GetAuditLogsSortedFirst(st, limit, offset) ==
    LET n    == Len(st.audit)
        last == IF offset + limit < n THEN offset + limit ELSE n
    IN  SubSeq(SortByTimestamp(st.audit), offset + 1, last)

\* getAuditLogs: skip offset entries, take up to limit, then sort the page
GetAuditLogs(st, limit, offset) ==
    LET n    == Len(st.audit)
        last == IF offset + limit < n THEN offset + limit ELSE n
    IN  SortByTimestamp(SubSeq(st.audit, offset + 1, last))

\* an export that snapshots the key store as well
ExportVaultDataWithKeys(st, t) ==
    JsonStringify([meta |-> st.meta, data |-> st.data, timestamp |-> t,
                   keys |-> st.key])

\* exportVaultData: the JSON text of {meta, data, timestamp}
ExportVaultData(st, t) ==
    JsonStringify([meta |-> st.meta, data |-> st.data, timestamp |-> t])

(***************************************************************************)
(* utils/auth.  fault is the position of the storage write (or encryption) *)
(* of the call that rejects, 0 for none; catchFault tells whether the      *)
(* audit write of the catch block rejects as well.                         *)
(***************************************************************************)
AuditEvent(type, t, details) ==
    [type |-> type, timestamp |-> t, details |-> details]

\* initializeAuth: returns [st, ok, threw]
InitializeAuth(st, password, salt, t, fault, catchFault) ==
    LET masterKeyExported == ExportKey(DeriveKeyFromPassword(password, salt))
        s1 == StoreKey(st, "masterKey", masterKeyExported)
        s2 == StoreMeta(s1, "authSalt", SaltToHex(salt))
        s3 == StoreMeta(s2, "lastKeyRotation", t)
        s4 == LogAuditEvent(s3, AuditEvent("AUTH_INIT", t, [success |-> TRUE]))
        reached == CASE fault = 1 -> st
                     [] fault = 2 -> s1
                     [] fault = 3 -> s2
                     [] OTHER     -> s3
        failure == AuditEvent("AUTH_INIT", t,
                       [success |-> FALSE, error |-> StorageErrorMsg])
    IN  IF fault \notin 1..4
        THEN [st |-> s4, ok |-> TRUE, threw |-> FALSE]
        ELSE IF catchFault
             THEN [st |-> reached, ok |-> FALSE, threw |-> TRUE]
             ELSE [st |-> LogAuditEvent(reached, failure),
                   ok |-> FALSE, threw |-> FALSE]

\* a rotation test that needs more than RotationDays days
RotationIsDueStrict(lastRotation, t) ==
    t - lastRotation > RotationDays

RotationIsDue(lastRotation, t) ==
    t - lastRotation >= RotationDays

\* the catch block of authenticateWithPassword
AuthenticateCatch(st, t, message, catchFault) ==
    IF catchFault
    THEN [st |-> st, success |-> FALSE, key |-> NoKey, threw |-> TRUE]
    ELSE [st |-> LogAuditEvent(st, AuditEvent("AUTH_ERROR", t,
                                              [error |-> message])),
          success |-> FALSE, key |-> NoKey, threw |-> FALSE]

\* an authenticateWithPassword that stamps a due rotation before it looks
\* at the comparison
AuthenticateRotatingFirst(st, password, t, fault, catchFault) ==
    IF ~HasMeta(st, "authSalt")
    THEN AuthenticateCatch(st, t, "Authentication data not found", catchFault)
    ELSE
    LET salt == HexToSalt(GetMeta(st, "authSalt"))
        derivedKeyExported == ExportKey(DeriveKeyFromPassword(password, salt))
        storedMasterKey == GetKey(st, "masterKey")
    IN  IF storedMasterKey = NoKey
        THEN AuthenticateCatch(st, t, "Master key not found", catchFault)
        ELSE
        LET matches == (derivedKeyExported = storedMasterKey)
            s1 == LogAuditEvent(st, AuditEvent("AUTH_ATTEMPT", t,
                                               [success |-> matches]))
            lastRotation == IF HasMeta(s1, "lastKeyRotation")
                            THEN GetMeta(s1, "lastKeyRotation") ELSE 0
            s2 == IF RotationIsDue(lastRotation, t)
                  THEN StoreMeta(s1, "lastKeyRotation", t) ELSE s1
        IN  IF fault = 1
            THEN AuthenticateCatch(st, t, StorageErrorMsg, catchFault)
            ELSE IF fault = 2 /\ RotationIsDue(lastRotation, t)
            THEN AuthenticateCatch(s1, t, StorageErrorMsg, catchFault)
            ELSE IF ~matches
            THEN [st |-> s2, success |-> FALSE, key |-> NoKey, threw |-> FALSE]
            ELSE [st |-> s2, success |-> TRUE,
                  key |-> ImportKey(storedMasterKey), threw |-> FALSE]

\* authenticateWithPassword: returns [st, success, key, threw]
AuthenticateWithPassword(st, password, t, fault, catchFault) ==
    IF ~HasMeta(st, "authSalt")
    THEN AuthenticateCatch(st, t, "Authentication data not found", catchFault)
    ELSE
    LET salt == HexToSalt(GetMeta(st, "authSalt"))
        derivedKeyExported == ExportKey(DeriveKeyFromPassword(password, salt))
        storedMasterKey == GetKey(st, "masterKey")
    IN  IF storedMasterKey = NoKey
        THEN AuthenticateCatch(st, t, "Master key not found", catchFault)
        ELSE
        LET matches == (derivedKeyExported = storedMasterKey)
            s1 == LogAuditEvent(st, AuditEvent("AUTH_ATTEMPT", t,
                                               [success |-> matches]))
            lastRotation == IF HasMeta(s1, "lastKeyRotation")
                            THEN GetMeta(s1, "lastKeyRotation") ELSE 0
        IN  IF fault = 1
            THEN AuthenticateCatch(st, t, StorageErrorMsg, catchFault)
            ELSE IF ~matches
            THEN [st |-> s1, success |-> FALSE, key |-> NoKey, threw |-> FALSE]
            ELSE IF ~RotationIsDue(lastRotation, t)
            THEN [st |-> s1, success |-> TRUE,
                  key |-> ImportKey(storedMasterKey), threw |-> FALSE]
            ELSE IF fault = 2
            THEN AuthenticateCatch(s1, t, StorageErrorMsg, catchFault)
            ELSE [st |-> StoreMeta(s1, "lastKeyRotation", t), success |-> TRUE,
                  key |-> ImportKey(storedMasterKey), threw |-> FALSE]

IsAuthRequired(st) == GetKey(st, "masterKey") # NoKey

(***************************************************************************)
(* DataProvider.refreshItems: the listing it computes, or the previous     *)
(* list when the closure's isAuthenticated is false.                       *)
(***************************************************************************)
WithId(id, item) ==
    [id |-> id, name |-> item.name, type |-> item.type, data |-> item.data,
     createdAt |-> item.createdAt, updatedAt |-> item.updatedAt]

RECURSIVE LoadItems(_, _, _)
LoadItems(st, key, ids) ==
    IF ids = <<>> THEN <<>>
    ELSE LET id == Head(ids)
             encryptedItem == GetData(st, id)
             decryptedItem == IF encryptedItem = NoItem THEN NoItem
                              ELSE CryptoDecrypt(key, encryptedItem.ciphertext,
                                                 encryptedItem.iv)
             rest == LoadItems(st, key, Tail(ids))
         IN  IF decryptedItem = NoItem THEN rest
             ELSE <<WithId(id, decryptedItem)>> \o rest

RefreshItems(st, authenticated, key, oldItems) ==
    IF ~authenticated THEN oldItems
    ELSE SortByUpdatedAt(LoadItems(st, key, ListData(st)))

(***************************************************************************)
(* The state machine.                                                      *)
(***************************************************************************)
St == [key |-> keyStore, data |-> dataStore, meta |-> metaStore,
       audit |-> auditStore]

SetStores(st) ==
    /\ keyStore'   = st.key
    /\ dataStore'  = st.data
    /\ metaStore'  = st.meta
    /\ auditStore' = st.audit

\* the model's bounds on the audit store and on rejections
Capped(n) == Len(auditStore') <= n
Within(n) == nextId' <= n
CountFault(faulted) ==
    /\ faulted => faults < MaxFaultyCalls
    /\ faults' = IF faulted THEN faults + 1 ELSE faults

\* the DataProvider effect on [isAuthenticated]: it runs when the value
\* changed, in the closure of the new render
AuthEffectItems(st, wasAuthenticated, authenticated, key) ==
    IF wasAuthenticated = authenticated THEN items
    ELSE IF authenticated THEN RefreshItems(st, TRUE, key, items)
    ELSE <<>>
AuthEffectError(wasAuthenticated, authenticated) ==
    IF ~wasAuthenticated /\ authenticated THEN NoError ELSE error

\* history of the last created item
Untrack == NoItem
TrackLogout ==
    IF tracked = NoItem THEN NoItem ELSE [tracked EXCEPT !.logouts = 1]
TrackLogin(ok) ==
    IF tracked = NoItem \/ ok THEN tracked ELSE [tracked EXCEPT !.failed = 1]

Init ==
    /\ keyStore = Empty
    /\ dataStore = Empty
    /\ metaStore = Empty
    /\ auditStore = <<>>
    /\ isAuthenticated = FALSE
    /\ isInitialized = FALSE
    /\ isLoading = TRUE
    /\ masterKey = NoKey
    /\ items = <<>>
    /\ error = NoError
    /\ mounted = FALSE
    /\ now = 0
    /\ nextId = 0
    /\ exportFile = NoFile
    /\ lastCall = [op |-> "none"]
    /\ tracked = NoItem
    /\ vault = NoItem
    /\ faults = 0
    /\ calls = << >>

\* AuthProvider mount effect
CheckInitialization ==
    /\ ~mounted
    /\ LET initialized == IsVaultInitialized(St)
           auto == initialized /\ ~IsAuthRequired(St)
           authenticated == IF auto THEN TRUE ELSE isAuthenticated
       IN  /\ isInitialized' = initialized
           /\ isAuthenticated' = authenticated
           /\ items' = AuthEffectItems(St, isAuthenticated, authenticated,
                                       masterKey)
           /\ error' = AuthEffectError(isAuthenticated, authenticated)
    /\ isLoading' = FALSE
    /\ mounted' = TRUE
    /\ lastCall' = [op |-> "checkInitialization"]
    /\ UNCHANGED <<storeVars, masterKey, now, nextId, exportFile, tracked,
                   vault, faults, calls>>

\* the page is reloaded: the providers are constructed again
Reload ==
    /\ mounted
    /\ isAuthenticated' = FALSE
    /\ isInitialized' = FALSE
    /\ isLoading' = TRUE
    /\ masterKey' = NoKey
    /\ items' = <<>>
    /\ error' = NoError
    /\ mounted' = FALSE
    /\ lastCall' = [op |-> "reload"]
    /\ tracked' = TrackLogout
    /\ UNCHANGED <<storeVars, now, nextId, exportFile, vault, faults, calls>>

\* an initialize whose finally block is skipped when initializeAuth throws
InitializeRunsNoFinally(password, salt, fault, catchFault) ==
    /\ \E r \in {InitializeAuth(St, password, salt, now, fault, catchFault)} :
       LET flagged == r.ok /\ fault # 5
       IN  /\ SetStores(IF flagged THEN SetVaultInitialized(r.st) ELSE r.st)
           /\ isInitialized' = (flagged \/ isInitialized)
           /\ lastCall' = [op |-> "initialize", pw |-> password,
                           ok |-> flagged, authOk |-> r.ok,
                           authThrew |-> r.threw,
                           authFault |-> (fault \in 1..4)]
           /\ vault' = IF r.ok THEN [tag |-> "vault", pw |-> password,
                                     salt |-> salt]
                       ELSE vault
           /\ CountFault(fault \in 1..5)
           /\ isLoading' = IF r.threw THEN isLoading ELSE FALSE
    /\ fault = 0 => ~catchFault
    /\ tracked' = Untrack
    /\ UNCHANGED <<isAuthenticated, masterKey, dataVars, mounted, now, nextId,
                   exportFile>>

\* AuthProvider.initialize after its setIsLoading(true): the try block, the
\* catch block and the finally block
InitializeRuns(password, salt, fault, catchFault) ==
    /\ \E r \in {InitializeAuth(St, password, salt, now, fault, catchFault)} :
       LET flagged == r.ok /\ fault # 5
       IN  /\ SetStores(IF flagged THEN SetVaultInitialized(r.st) ELSE r.st)
           /\ isInitialized' = (flagged \/ isInitialized)
           /\ lastCall' = [op |-> "initialize", pw |-> password,
                           ok |-> flagged, authOk |-> r.ok,
                           authThrew |-> r.threw,
                           authFault |-> (fault \in 1..4)]
           /\ vault' = IF r.ok THEN [tag |-> "vault", pw |-> password,
                                     salt |-> salt]
                       ELSE vault
           /\ CountFault(fault \in 1..5)
    /\ fault = 0 => ~catchFault
    /\ isLoading' = FALSE
    /\ tracked' = Untrack
    /\ UNCHANGED <<isAuthenticated, masterKey, dataVars, mounted, now, nextId,
                   exportFile>>

\* AuthProvider.initialize, offered by the Login page while ~isInitialized
Initialize(password, salt, fault, catchFault) ==
    /\ mounted
    /\ ~isInitialized
    /\ InitializeRuns(password, salt, fault, catchFault)
    /\ UNCHANGED calls

\* a login that takes over whatever the authentication returned
LoginOutcomeUnconditional(result, authenticated, key) ==
    [ok |-> ~result.threw /\ result.success,
     authenticated |-> ~result.threw /\ result.success,
     key |-> result.key]

\* AuthProvider.login's state update: only a result with success and a key
\* sets the master key and isAuthenticated
LoginOutcome(result, authenticated, key) ==
    LET ok == ~result.threw /\ result.success /\ result.key # NoKey
    IN  [ok |-> ok,
         authenticated |-> IF ok THEN TRUE ELSE authenticated,
         key |-> IF ok THEN result.key ELSE key]

\* AuthProvider.login after its setIsLoading(true): the try block, the
\* catch block and the finally block
LoginRuns(password, fault, catchFault) ==
    /\ \E r  \in {AuthenticateWithPassword(St, password, now, fault, catchFault)},
          r0 \in {AuthenticateWithPassword(St, password, now, 0, FALSE)} :
       LET out == LoginOutcome(r, isAuthenticated, masterKey)
           ok  == out.ok
           authenticated == out.authenticated
           key == out.key
       IN  /\ SetStores(r.st)
           /\ isAuthenticated' = authenticated
           /\ masterKey' = key
           /\ items' = AuthEffectItems(r.st, isAuthenticated, authenticated, key)
           /\ error' = AuthEffectError(isAuthenticated, authenticated)
           /\ lastCall' = [op |-> "login", pw |-> password, ok |-> ok,
                           authSuccess |-> r.success, authKey |-> r.key,
                           authThrew |-> r.threw,
                           logged |-> Len(r.st.audit) - Len(auditStore)]
           /\ tracked' = TrackLogin(ok)
           /\ (fault # 0 \/ catchFault) => r # r0
           /\ CountFault(r # r0)
    /\ isLoading' = FALSE
    /\ UNCHANGED <<isInitialized, mounted, now, nextId, exportFile, vault>>

\* AuthProvider.login, offered by the Login page while isInitialized
Login(password, fault, catchFault) ==
    /\ mounted
    /\ isInitialized
    /\ LoginRuns(password, fault, catchFault)
    /\ UNCHANGED calls

\* AuthProvider.logout
Logout ==
    /\ mounted
    /\ isAuthenticated' = FALSE
    /\ masterKey' = NoKey
    /\ items' = AuthEffectItems(St, isAuthenticated, FALSE, NoKey)
    /\ lastCall' = [op |-> "logout"]
    /\ tracked' = TrackLogout
    /\ UNCHANGED <<storeVars, isInitialized, isLoading, error, mounted, now,
                   nextId, exportFile, vault, faults, calls>>

Tick ==
    /\ now < MaxTicks * TickDays
    /\ now' = now + TickDays
    /\ UNCHANGED <<storeVars, authVars, dataVars, mounted, nextId, exportFile,
                   lastCall, tracked, vault, faults, calls>>

(***************************************************************************)
(* DataProvider: createItem, getItem, updateItem, deleteItem, refreshItems *)
(***************************************************************************)
ItemIds     == 1..MaxItems
InputItems  == { [name |-> "Bank", type |-> "password", data |-> "d1"] }
ItemUpdates == { [name |-> "Bank2"] }
ListIds     == 1..ListItems
ListUpdates == { [name |-> "Bank2"], [data |-> "d2"],
                 [name |-> "Bank3", type |-> "note"] }

NewItem(item, t) ==
    [name |-> item.name, type |-> item.type, data |-> item.data,
     createdAt |-> t, updatedAt |-> t]

\* a merge that stamps createdAt as well
MergeItemRestamped(currentItem, updates, t) ==
    [f \in DOMAIN currentItem \cup DOMAIN updates \cup {"updatedAt"} |->
        IF f \in {"updatedAt", "createdAt"} THEN t
        ELSE IF f \in DOMAIN updates THEN updates[f]
        ELSE currentItem[f]]

\* { ...currentItem, ...updates, updatedAt: Date.now() }
MergeItem(currentItem, updates, t) ==
    [f \in DOMAIN currentItem \cup DOMAIN updates \cup {"updatedAt"} |->
        IF f = "updatedAt" THEN t
        ELSE IF f \in DOMAIN updates THEN updates[f]
        ELSE currentItem[f]]

\* a locked call that leaves an audit event behind
LockedCallLogged(returned) ==
    /\ ~isAuthenticated
    /\ Len(auditStore) < MaxAudit
    /\ auditStore' = Append(auditStore,
                            AuditEvent("ACCESS_DENIED", now, [of |-> returned.of]))
    /\ lastCall' = returned
    /\ UNCHANGED <<keyStore, dataStore, metaStore, authVars, dataVars, mounted,
                   now, nextId, exportFile, tracked, vault, faults, calls>>

\* a call made while the closure's isAuthenticated is false returns at once;
\* returned names the handler and what it returns: id 0 for createItem's
\* null, NoItem for getItem's null, ok FALSE for false
LockedCall(returned) ==
    /\ ~isAuthenticated
    /\ lastCall' = returned
    /\ UNCHANGED <<storeVars, authVars, dataVars, mounted, now, nextId,
                   exportFile, tracked, vault, faults, calls>>

\* a createItem that stores whatever encrypt returned, null included
CreateItemUnchecked(st, key, id, item, t, iv, fault) ==
    LET encrypted == CryptoEncrypt(key, NewItem(item, t), iv, fault = 1)
        s1 == StoreData(st, id, encrypted)
    IN  [st |-> LogAuditEvent(s1, AuditEvent("ITEM_CREATE", t,
                                             [id |-> id, type |-> item.type])),
         id |-> id, stored |-> TRUE]

\* createItem: returns [st, id, stored] with id = 0 for null; stored tells
\* whether storeData completed
CreateItemResult(st, key, id, item, t, iv, fault) ==
    LET newItem   == NewItem(item, t)
        encrypted == CryptoEncrypt(key, newItem, iv, fault = 1)
        s1 == StoreData(st, id, encrypted)
        s2 == LogAuditEvent(s1, AuditEvent("ITEM_CREATE", t,
                                           [id |-> id, type |-> item.type]))
    IN  IF encrypted = NoItem \/ fault = 2
        THEN [st |-> st, id |-> 0, stored |-> FALSE]
        ELSE IF fault = 3 THEN [st |-> s1, id |-> 0, stored |-> TRUE]
        ELSE [st |-> s2, id |-> id, stored |-> TRUE]

CreateItem(item, iv, fault) ==
    /\ mounted
    /\ \/ /\ LockedCall([op |-> "locked", of |-> "createItem", id |-> 0])
          /\ fault = 0
       \/ /\ isAuthenticated
          /\ nextId < ListItems
          /\ \E id \in {nextId + 1} :
             \E r  \in {CreateItemResult(St, masterKey, id, item, now, iv, fault)},
                r0 \in {CreateItemResult(St, masterKey, id, item, now, iv, 0)} :
                 /\ SetStores(r.st)
                 /\ items' = IF r.id = 0 THEN items
                             ELSE RefreshItems(r.st, TRUE, masterKey, items)
                 /\ error' = IF r.id = 0 THEN "Failed to create item"
                             ELSE NoError
                 /\ lastCall' = [op |-> "createItem", id |-> r.id,
                                 wrote |-> r.stored,
                                 logged |-> Len(r.st.audit) - Len(auditStore)]
                 /\ tracked' = IF r.id = 0 THEN Untrack
                               ELSE [tag |-> "item", id |-> id,
                                     item |-> NewItem(item, now),
                                     logouts |-> 0, failed |-> 0]
                 /\ fault # 0 => r # r0
                 /\ CountFault(r # r0)
          /\ nextId' = nextId + 1
          /\ UNCHANGED <<authVars, mounted, now, exportFile, vault, calls>>

\* getItem: the item with its id, or NoItem for null
GetItemResult(st, key, id) ==
    LET encryptedItem == GetData(st, id)
        decryptedItem == IF encryptedItem = NoItem THEN NoItem
                         ELSE CryptoDecrypt(key, encryptedItem.ciphertext,
                                            encryptedItem.iv)
    IN  IF decryptedItem = NoItem THEN NoItem ELSE WithId(id, decryptedItem)

GetItem(id) ==
    /\ mounted
    /\ \/ LockedCall([op |-> "locked", of |-> "getItem", item |-> NoItem])
       \/ /\ isAuthenticated
          /\ error' = NoError
          /\ lastCall' = [op |-> "getItem", id |-> id,
                          item |-> GetItemResult(St, masterKey, id)]
          /\ UNCHANGED <<storeVars, authVars, items, mounted, now, nextId,
                         exportFile, tracked, vault, faults, calls>>

\* an updateItem that writes the updates even when no current item opened
UpdateItemUpserting(st, key, id, updates, t, iv, fault) ==
    LET encryptedItem == GetData(st, id)
        currentItem == IF encryptedItem = NoItem THEN NoItem
                       ELSE CryptoDecrypt(key, encryptedItem.ciphertext,
                                          encryptedItem.iv)
        updatedItem == MergeItem(currentItem, updates, t)
        encrypted == CryptoEncrypt(key, updatedItem, iv, fault = 1)
        s1 == StoreData(st, id, encrypted)
        s2 == LogAuditEvent(s1, AuditEvent("ITEM_UPDATE", t, [id |-> id]))
    IN  IF encrypted = NoItem \/ fault = 2
        THEN [st |-> st, ok |-> FALSE, stored |-> FALSE]
        ELSE IF fault = 3 THEN [st |-> s1, ok |-> FALSE, stored |-> TRUE]
        ELSE [st |-> s2, ok |-> currentItem # NoItem, stored |-> TRUE]

\* updateItem: returns [st, ok, stored]
UpdateItemResult(st, key, id, updates, t, iv, fault) ==
    LET encryptedItem == GetData(st, id)
        currentItem == IF encryptedItem = NoItem THEN NoItem
                       ELSE CryptoDecrypt(key, encryptedItem.ciphertext,
                                          encryptedItem.iv)
        updatedItem == MergeItem(currentItem, updates, t)
        encrypted == CryptoEncrypt(key, updatedItem, iv, fault = 1)
        s1 == StoreData(st, id, encrypted)
        s2 == LogAuditEvent(s1, AuditEvent("ITEM_UPDATE", t, [id |-> id]))
    IN  IF currentItem = NoItem \/ encrypted = NoItem \/ fault = 2
        THEN [st |-> st, ok |-> FALSE, stored |-> FALSE]
        ELSE IF fault = 3 THEN [st |-> s1, ok |-> FALSE, stored |-> TRUE]
        ELSE [st |-> s2, ok |-> TRUE, stored |-> TRUE]

UpdateItem(id, updates, iv, fault) ==
    /\ mounted
    /\ \/ /\ LockedCall([op |-> "locked", of |-> "updateItem", ok |-> FALSE])
          /\ fault = 0
       \/ /\ isAuthenticated
          /\ \E r  \in {UpdateItemResult(St, masterKey, id, updates, now, iv,
                                         fault)},
                r0 \in {UpdateItemResult(St, masterKey, id, updates, now, iv, 0)} :
                 /\ SetStores(r.st)
                 /\ items' = IF r.ok
                             THEN RefreshItems(r.st, TRUE, masterKey, items)
                             ELSE items
                 /\ error' = IF r.ok THEN NoError ELSE "Failed to update item"
                 /\ lastCall' = [op |-> "updateItem", id |-> id,
                                 updates |-> updates, ok |-> r.ok,
                                 wrote |-> r.stored,
                                 logged |-> Len(r.st.audit) - Len(auditStore)]
                 /\ fault # 0 => r # r0
                 /\ CountFault(r # r0)
          /\ tracked' = Untrack
          /\ UNCHANGED <<authVars, mounted, now, nextId, exportFile, vault,
                         calls>>

\* a deleteItem that appends no audit event
DeleteItemSilent(st, id, t, fault) ==
    IF fault = 1 THEN [st |-> st, ok |-> FALSE]
    ELSE [st |-> RemoveData(st, id), ok |-> TRUE]

\* deleteItem: returns [st, ok]
DeleteItemResult(st, id, t, fault) ==
    LET s1 == RemoveData(st, id)
        s2 == LogAuditEvent(s1, AuditEvent("ITEM_DELETE", t, [id |-> id]))
    IN  IF fault = 1 THEN [st |-> st, ok |-> FALSE]
        ELSE IF fault = 2 THEN [st |-> s1, ok |-> FALSE]
        ELSE [st |-> s2, ok |-> TRUE]

DeleteItem(id, fault) ==
    /\ mounted
    /\ \/ /\ LockedCall([op |-> "locked", of |-> "deleteItem", ok |-> FALSE])
          /\ fault = 0
       \/ /\ isAuthenticated
          /\ \E r \in {DeleteItemResult(St, id, now, fault)} :
                 /\ SetStores(r.st)
                 /\ items' = IF r.ok
                             THEN RefreshItems(r.st, TRUE, masterKey, items)
                             ELSE items
                 /\ error' = IF r.ok THEN NoError ELSE "Failed to delete item"
                 /\ lastCall' = [op |-> "deleteItem", id |-> id, ok |-> r.ok,
                                 wrote |-> (r.st.data # dataStore),
                                 logged |-> Len(r.st.audit) - Len(auditStore)]
                 /\ CountFault(fault # 0)
          /\ tracked' = Untrack
          /\ UNCHANGED <<authVars, mounted, now, nextId, exportFile, vault,
                         calls>>

\* refreshItems called by a page
Refresh ==
    /\ mounted
    /\ \/ LockedCall([op |-> "locked", of |-> "refreshItems"])
       \/ /\ isAuthenticated
          /\ items' = RefreshItems(St, TRUE, masterKey, items)
          /\ error' = NoError
          /\ lastCall' = [op |-> "refreshItems"]
          /\ UNCHANGED <<storeVars, authVars, mounted, now, nextId,
                         exportFile, tracked, vault, faults, calls>>
(***************************************************************************)
(* Settings page: export, import, reset, audit log.                        *)
(***************************************************************************)
AuditPageSize == 50
StoreNames    == {"key", "data", "meta", "audit"}

\* metaStore keys in the order the store iterates them
MetaKeyOrder ==
    <<"0", "1", "authSalt", "lastKeyRotation", "vaultInitialized">>

RECURSIVE MetaWrites(_, _)
MetaWrites(meta, keys) ==
    IF keys = <<>> THEN <<>>
    ELSE (IF Head(keys) \in DOMAIN meta
          THEN <<[ns |-> "meta", id |-> Head(keys)]>> ELSE <<>>)
         \o MetaWrites(meta, Tail(keys))

DataWrites(data) ==
    LET ids == SortedIds(DOMAIN data)
    IN  [i \in 1..Len(ids) |-> [ns |-> "data", no |-> ids[i]]]

\* the first n setItem calls of importVaultData
RECURSIVE ApplyWrites(_, _, _, _)
ApplyWrites(st, importData, writes, n) ==
    IF n = 0 \/ writes = <<>> THEN st
    ELSE LET w  == Head(writes)
             s1 == IF w.ns = "meta"
                   THEN StoreMeta(st, w.id, importData.meta[w.id])
                   ELSE StoreData(st, w.no, importData.data[w.no])
         IN  ApplyWrites(s1, importData, Tail(writes), n - 1)

\* an import that restarts the key rotation period as well
ImportVaultDataStamping(st, jsonData, t, fault) ==
    IF ~IsJson(jsonData) THEN [st |-> st, threw |-> TRUE]
    ELSE
    LET importData == JsonParse(jsonData)
        writes == MetaWrites(importData.meta, MetaKeyOrder)
                  \o DataWrites(importData.data)
        s1 == ApplyWrites(st, importData, writes, Len(writes))
        s2 == StoreMeta(s1, "lastKeyRotation", t)
    IN  [st |-> LogAuditEvent(s2, AuditEvent("IMPORT", t,
                  [timestamp |-> importData.timestamp,
                   metaCount |-> Cardinality(DOMAIN importData.meta),
                   dataCount |-> Cardinality(DOMAIN importData.data)])),
         threw |-> FALSE]

\* an import that replaces the two namespaces by the document's maps
ImportVaultDataReplacing(st, jsonData, t, fault) ==
    IF ~IsJson(jsonData) THEN [st |-> st, threw |-> TRUE]
    ELSE
    LET importData == JsonParse(jsonData)
        s1 == [st EXCEPT !.meta = importData.meta, !.data = importData.data]
    IN  [st |-> LogAuditEvent(s1, AuditEvent("IMPORT", t,
                  [timestamp |-> importData.timestamp,
                   metaCount |-> Cardinality(DOMAIN importData.meta),
                   dataCount |-> Cardinality(DOMAIN importData.data)])),
         threw |-> FALSE]

\* A JSON document whose meta or data member need not be a map carries its
\* members as values [kind, entries]; entries is what Object.entries gives
\* for an object (its properties) and for a string (its characters by index)
HasMembers(jsonData) == "members" \in DOMAIN jsonData
JsonValue(kind) == [kind |-> kind]
JsonObject(kind, entries) == [kind |-> kind, entries |-> entries]

\* Object.entries(value) throws a TypeError for undefined and null, and
\* yields no entry for a number or a boolean
ObjectEntriesThrows(value) == value.kind \in {"undefined", "null"}
ObjectEntries(value) ==
    IF value.kind \in {"object", "string"} THEN value.entries ELSE Empty

\* setItem for every entry
SetItems(store, entries) ==
    [k \in DOMAIN store \cup DOMAIN entries |->
        IF k \in DOMAIN entries THEN entries[k] ELSE store[k]]

\* importVaultData's try block for such a document
ImportMembers(st, importData, t) ==
    IF ObjectEntriesThrows(importData.meta)
    THEN [st |-> st, threw |-> TRUE]
    ELSE
    LET s1 == [st EXCEPT !.meta = SetItems(@, ObjectEntries(importData.meta))]
        s2 == [s1 EXCEPT !.data = SetItems(@, ObjectEntries(importData.data))]
    IN  IF ObjectEntriesThrows(importData.data)
        THEN [st |-> s1, threw |-> TRUE]
        ELSE [st |-> LogAuditEvent(s2, AuditEvent("IMPORT", t,
                  [timestamp |-> importData.timestamp,
                   metaCount |->
                       Cardinality(DOMAIN ObjectEntries(importData.meta)),
                   dataCount |->
                       Cardinality(DOMAIN ObjectEntries(importData.data))])),
              threw |-> FALSE]

\* importVaultData: returns [st, threw]
ImportVaultData(st, jsonData, t, fault) ==
    IF ~IsJson(jsonData) THEN [st |-> st, threw |-> TRUE]
    ELSE IF HasMembers(jsonData) THEN ImportMembers(st, jsonData.members, t)
    ELSE
    LET importData == JsonParse(jsonData)
        writes == MetaWrites(importData.meta, MetaKeyOrder)
                  \o DataWrites(importData.data)
        n  == Len(writes)
        s1 == ApplyWrites(st, importData, writes, n)
        s2 == LogAuditEvent(s1, AuditEvent("IMPORT", t,
                  [timestamp |-> importData.timestamp,
                   metaCount |-> Cardinality(DOMAIN importData.meta),
                   dataCount |-> Cardinality(DOMAIN importData.data)]))
    IN  IF fault \in 1..n
        THEN [st |-> ApplyWrites(st, importData, writes, fault - 1),
              threw |-> TRUE]
        ELSE IF fault = n + 1 THEN [st |-> s1, threw |-> TRUE]
        ELSE [st |-> s2, threw |-> FALSE]

\* clearAllData: Promise.all of the four clears; failed are those that reject
ClearAllData(st, failed) ==
    [key   |-> IF "key"   \in failed THEN st.key   ELSE Empty,
     data  |-> IF "data"  \in failed THEN st.data  ELSE Empty,
     meta  |-> IF "meta"  \in failed THEN st.meta  ELSE Empty,
     audit |-> IF "audit" \in failed THEN st.audit ELSE <<>>]

\* Settings.handleExport: the user keeps the downloaded file
HandleExport ==
    /\ mounted
    /\ isAuthenticated
    /\ exportFile' = ExportVaultData(St, now)
    /\ lastCall' = [op |-> "exportVaultData"]
    /\ tracked' = Untrack
    /\ UNCHANGED <<storeVars, authVars, dataVars, mounted, now, nextId, vault,
                   faults, calls>>

\* Settings.handleImport of the file the user picked
HandleImportFile(file, fault) ==
    /\ mounted
    /\ isAuthenticated
    /\ \E r  \in {ImportVaultData(St, file, now, fault)},
          r0 \in {ImportVaultData(St, file, now, 0)} :
           /\ SetStores(r.st)
           /\ lastCall' = [op |-> "importVaultData", file |-> file,
                           ok |-> ~r.threw]
           /\ fault # 0 => r # r0
           /\ CountFault(r # r0)
    /\ tracked' = Untrack
    /\ UNCHANGED <<authVars, dataVars, mounted, now, nextId, exportFile, vault,
                   calls>>

\* Settings.handleImport of the backup file the user holds
HandleImport(fault) ==
    /\ exportFile # NoFile
    /\ HandleImportFile(exportFile, fault)

\* files that are no backup: a text that is no JSON, and JSON documents
\* whose meta or data member is missing, null, a number or a string
NotJson == [tag |-> "text"]
JsonDocument(meta, data) ==
    [tag |-> "json",
     members |-> [meta |-> meta, data |-> data, timestamp |-> 0]]
CorruptFiles ==
    { NotJson,
      JsonDocument(JsonValue("undefined"), JsonObject("object", Empty)),
      JsonDocument(JsonObject("object", [k \in {"authSalt"} |-> SaltToHex(2)]),
                   JsonValue("undefined")),
      JsonDocument(JsonValue("null"), JsonValue("null")),
      JsonDocument(JsonValue("number"), JsonValue("number")),
      JsonDocument(JsonObject("string", [k \in {"0", "1"} |-> "x"]),
                   JsonObject("object", Empty)) }

\* Settings.handleReset: clearAllData, then logout unless a clear rejected
HandleReset(failed) ==
    /\ mounted
    /\ isAuthenticated
    /\ SetStores(ClearAllData(St, failed))
    /\ LET authenticated == IF failed = {} THEN FALSE ELSE isAuthenticated
       IN  /\ isAuthenticated' = authenticated
           /\ masterKey' = IF failed = {} THEN NoKey ELSE masterKey
           /\ items' = AuthEffectItems(St, isAuthenticated, authenticated,
                                       NoKey)
    /\ lastCall' = [op |-> "handleReset", ok |-> (failed = {})]
    /\ tracked' = Untrack
    /\ vault' = IF failed = {} THEN NoItem ELSE vault
    /\ CountFault(failed # {})
    /\ UNCHANGED <<isInitialized, isLoading, error, mounted, now, nextId,
                   exportFile, calls>>

\* Settings.loadAuditLogs
LoadAuditLogs ==
    /\ mounted
    /\ isAuthenticated
    /\ lastCall' = [op |-> "getAuditLogs", limit |-> AuditPageSize,
                    offset |-> 0,
                    logs |-> GetAuditLogs(St, AuditPageSize, 0)]
    /\ UNCHANGED <<storeVars, authVars, dataVars, mounted, now, nextId,
                   exportFile, tracked, vault, faults, calls>>

(***************************************************************************)
(* Specifications.                                                         *)
(***************************************************************************)
\* Spec: every handler, over a storage backend whose calls all succeed;
\* crypto.subtle.encrypt may reject (fault 1 of createItem and updateItem)
Next ==
    \/ CheckInitialization
    \/ Reload
    \/ \E pw \in Passwords, salt \in Salts :
            Initialize(pw, salt, 0, FALSE) /\ Capped(MaxAudit)
    \/ \E pw \in Passwords : Login(pw, 0, FALSE) /\ Capped(MaxAudit)
    \/ Logout
    \/ \E item \in InputItems, iv \in IVs, fault \in 0..1 :
            CreateItem(item, iv, fault) /\ Capped(MaxAudit) /\ Within(MaxItems)
    \/ \E id \in ItemIds : GetItem(id)
    \/ \E id \in ItemIds, u \in ItemUpdates, iv \in IVs, fault \in 0..1 :
            UpdateItem(id, u, iv, fault) /\ Capped(MaxAudit)
    \/ \E id \in ItemIds : DeleteItem(id, 0) /\ Capped(MaxAudit)
    \/ Refresh
    \/ HandleExport
    \/ HandleImport(0) /\ Capped(MaxAudit)
    \/ HandleReset({})
    \/ LoadAuditLogs
    \/ Tick

Spec == Init /\ [][Next]_vars

\* SpecFail: the handlers that write, with storage writes, the encryption
\* and the store clears rejecting in at most MaxFaultyCalls calls
NextFail ==
    \/ CheckInitialization
    \/ Reload
    \/ \E pw \in Passwords, salt \in OneSalt, fault \in 0..5, cf \in BOOLEAN :
            Initialize(pw, salt, fault, cf) /\ Capped(MaxAudit)
    \/ \E pw \in Passwords, fault \in 0..2, cf \in BOOLEAN :
            Login(pw, fault, cf) /\ Capped(MaxAudit)
    \/ Logout
    \/ \E item \in InputItems, iv \in IVs, fault \in 0..3 :
            CreateItem(item, iv, fault) /\ Capped(MaxAudit) /\ Within(MaxItems)
    \/ \E id \in ItemIds : GetItem(id)
    \/ \E id \in ItemIds, u \in ItemUpdates, iv \in IVs, fault \in 0..3 :
            UpdateItem(id, u, iv, fault) /\ Capped(MaxAudit)
    \/ \E id \in ItemIds, fault \in 0..2 :
            DeleteItem(id, fault) /\ Capped(MaxAudit)
    \/ \E failed \in SUBSET StoreNames : HandleReset(failed)
    \/ Tick

SpecFail == Init /\ [][NextFail]_vars

\* SpecSession: sessions over one vault -- initialize, log in and out,
\* reload, create and read -- with room for SessionAudit audit events
NextSession ==
    \/ CheckInitialization
    \/ Reload
    \/ \E pw \in Passwords, salt \in OneSalt :
            Initialize(pw, salt, 0, FALSE) /\ Capped(SessionAudit)
    \/ \E pw \in Passwords : Login(pw, 0, FALSE) /\ Capped(SessionAudit)
    \/ Logout
    \/ \E item \in InputItems, iv \in IVs :
            CreateItem(item, iv, 0) /\ Capped(SessionAudit) /\ Within(MaxItems)
    \/ \E id \in ItemIds : GetItem(id)
    \/ Tick

SpecSession == Init /\ [][NextSession]_vars

\* SpecItems: the item handlers over up to ListItems records, with export,
\* import and reset, over a storage backend whose calls all succeed; one
\* password, the vaults differ by their salt, and the user exports once
FirstExport == exportFile = NoFile
NextItems ==
    \/ CheckInitialization
    \/ Reload
    \/ \E pw \in OnePassword, salt \in Salts :
            Initialize(pw, salt, 0, FALSE) /\ Capped(ListAudit)
    \/ \E pw \in OnePassword : Login(pw, 0, FALSE) /\ Capped(ListAudit)
    \/ \E item \in InputItems, iv \in IVs :
            CreateItem(item, iv, 0) /\ Capped(ListAudit)
    \/ \E id \in ListIds, u \in ListUpdates, iv \in IVs :
            UpdateItem(id, u, iv, 0) /\ Capped(ListAudit)
    \/ \E id \in ListIds : DeleteItem(id, 0) /\ Capped(ListAudit)
    \/ Refresh
    \/ HandleExport /\ FirstExport
    \/ HandleImport(0) /\ Capped(ListAudit)
    \/ HandleReset({})
    \/ Tick

SpecItems == Init /\ [][NextItems]_vars

\* SpecImport: the settings page's import of the backup and of files that
\* are no backup, into a vault of one record
NextImport ==
    \/ CheckInitialization
    \/ \E pw \in OnePassword, salt \in OneSalt :
            Initialize(pw, salt, 0, FALSE) /\ Capped(ListAudit)
    \/ \E pw \in OnePassword : Login(pw, 0, FALSE) /\ Capped(ListAudit)
    \/ \E item \in InputItems, iv \in IVs :
            CreateItem(item, iv, 0) /\ Capped(ListAudit) /\ Within(MaxItems)
    \/ HandleExport
    \/ HandleImport(0) /\ Capped(ListAudit)
    \/ \E file \in CorruptFiles :
            HandleImportFile(file, 0) /\ Capped(ListAudit)
    \/ Tick

SpecImport == Init /\ [][NextImport]_vars

\* SpecAudit: getAuditLogs(limit, offset) as a function of the audit
\* store's content.  The store iterates in key order, log_<ms>_<random>,
\* and an event's timestamp is taken by its caller, so any order of
\* timestamps can be met in the iteration (events of one millisecond, a
\* clock that was set back).
LogTimes  == {1, 3, 5}
LogEvents ==
    { AuditEvent(type, t, [id |-> 1]) :
          type \in {"ITEM_UPDATE", "ITEM_DELETE"}, t \in LogTimes }
AuditLogs == UNION { [1..n -> LogEvents] : n \in 0..MaxLog }

InitAudit ==
    /\ keyStore = Empty
    /\ dataStore = Empty
    /\ metaStore = Empty
    /\ auditStore \in AuditLogs
    /\ isAuthenticated = FALSE
    /\ isInitialized = FALSE
    /\ isLoading = TRUE
    /\ masterKey = NoKey
    /\ items = <<>>
    /\ error = NoError
    /\ mounted = FALSE
    /\ now = 0
    /\ nextId = 0
    /\ exportFile = NoFile
    /\ lastCall = [op |-> "none"]
    /\ tracked = NoItem
    /\ vault = NoItem
    /\ faults = 0
    /\ calls = << >>

\* a call of getAuditLogs(limit, offset)
QueryAuditLogs(limit, offset) ==
    /\ lastCall' = [op |-> "getAuditLogs", limit |-> limit, offset |-> offset,
                    logs |-> GetAuditLogs(St, limit, offset)]
    /\ UNCHANGED <<storeVars, authVars, dataVars, mounted, now, nextId,
                   exportFile, tracked, vault, faults, calls>>

NextAudit ==
    \E limit \in 0..(MaxLog + 1), offset \in 0..(MaxLog + 1) :
        QueryAuditLogs(limit, offset)

SpecAudit == InitAudit /\ [][NextAudit]_vars

(***************************************************************************)
(* utils/crypto: chaff.  A property name is the sequence of the parts that *)
(* "_" separates in it: "a" is <<"a">>, "a_Xy3k" is <<"a", "Xy3k">> and    *)
(* the empty name is << >>.  An object is the sequence of its entries in   *)
(* insertion order.                                                        *)
(***************************************************************************)
MaxFields    == 2     \* fields of the data handed to addChaffToData
MaxRatio     == 1     \* chaffRatio handed to addChaffToData
MaxArray     == 4     \* length of the arrays handed to shuffleArray

Undefined    == [tag |-> "undefined"]

\* JavaScript values: strings, numbers, booleans and Date objects
FieldValues  == { [is |-> "string", text |-> "v1"],
                  [is |-> "string", text |-> "v2"],
                  [is |-> "number", n |-> 42],
                  [is |-> "boolean", b |-> TRUE],
                  [is |-> "Date", day |-> 0] }
Suffixes     == {"Xy3k", "Qq7z"}   \* outcomes of generateRandomString(4)
MathRandom   == {0, 999}           \* outcomes of Math.random(), in thousandths
RandomBytes  == 0..255             \* outcomes of getRandomValues(Uint8Array(1))
ShuffleBytes == {0, 128, 255}      \* the bytes drawn inside addChaffToData

FieldName(k) == <<"field" \o ToString(k)>>
\* the objects of up to MaxFields fields
FieldData ==
    UNION { { [k \in 1..n |-> [key |-> FieldName(k), value |-> value[k]]] :
                  value \in [1..n -> FieldValues] } : n \in 0..MaxFields }

\* array[k], k counted from 0
ElementAt(array, k) == IF k < Len(array) THEN array[k + 1] ELSE Undefined

\* shuffleArray: j = Math.floor((randomValues[0] / 255) * (i + 1)).  The
\* quotient of the integers equals the floating-point result for every byte
\* while i + 1 <= 50.
SwapIndex(i, byte) == (byte * (i + 1)) \div 255

\* shuffleArray: [array[i], array[j]] = [array[j], array[i]]; an assignment
\* at index array.length extends the array
Swap(array, i, j) ==
    LET length == IF j >= Len(array) THEN j + 1 ELSE Len(array)
    IN  [k \in 1..length |->
            IF k - 1 = i THEN ElementAt(array, j)
            ELSE IF k - 1 = j THEN ElementAt(array, i)
            ELSE ElementAt(array, k - 1)]

\* shuffleArray, the loop from index i down to 1; bytes[i] is the byte
\* drawn at loop index i
RECURSIVE ShuffleFrom(_, _, _)
ShuffleFrom(array, i, bytes) ==
    IF i > 0
    THEN ShuffleFrom(Swap(array, i, SwapIndex(i, bytes[i])), i - 1, bytes)
    ELSE array

ShuffleArray(array, bytes) == ShuffleFrom(array, Len(array) - 1, bytes)

\* typeof value
TypeOf(value) ==
    IF value = Undefined THEN "undefined"
    ELSE IF value.is = "Date" THEN "object"
    ELSE value.is

\* generateChaffValue(fieldType) with random as the outcome of its
\* Math.random(): a string of 8 to 15 random characters (given by its
\* length), an integer below 1000, a boolean, the ISO text of the day up to
\* 364 days before t, or a string of 10 random characters
GenerateChaffValue(fieldType, random, t) ==
    CASE fieldType = "string" ->
             [is |-> "string", length |-> 8 + (random * 8) \div 1000]
      [] fieldType = "number" ->
             [is |-> "number", n |-> (random * 1000) \div 1000]
      [] fieldType = "boolean" ->
             [is |-> "boolean", b |-> random > 500]
      [] fieldType = "date" ->
             [is |-> "string", iso |-> t - (random * 365) \div 1000]
      [] OTHER ->
             [is |-> "string", length |-> 10]

\* addChaffToData, the assignments result[key] = entry in program order:
\* for each field the real entry, then chaffRatio chaff entries;
\* suffix[p] is the suffix drawn for the p-th assignment and chaff[p] the
\* Math.random() of its generateChaffValue
ChaffAssignments(data, chaffRatio, suffix, chaff) ==
    [p \in 1..(Len(data) * (chaffRatio + 1)) |->
        LET field == data[((p - 1) \div (chaffRatio + 1)) + 1]
            real  == (p - 1) % (chaffRatio + 1) = 0
        IN  [key   |-> Append(field.key, suffix[p]),
             entry |-> [value  |-> IF real THEN field.value
                                   ELSE GenerateChaffValue(
                                            TypeOf(field.value), chaff[p], 0),
                        isReal |-> real]]]

\* result[key] after the assignments: the last entry assigned under key, or
\* undefined
Lookup(assignments, key) ==
    LET at == { p \in DOMAIN assignments : [key |-> assignments[p].key] = key }
    IN  IF at = {} THEN Undefined
        ELSE assignments[CHOOSE p \in at : \A q \in at : q <= p].entry

\* addChaffToData(data, chaffRatio): the entries field_0, field_1, ... of
\* the returned object
AddChaffToData(data, chaffRatio, suffix, chaff, bytes) ==
    LET assignments == ChaffAssignments(data, chaffRatio, suffix, chaff)
        allKeys     == [p \in DOMAIN assignments |->
                            [key |-> assignments[p].key]]
        shuffled    == ShuffleArray(allKeys, bytes)
    IN  [index \in DOMAIN shuffled |-> Lookup(assignments, shuffled[index])]

\* removeChaffFromData: Object.keys(item)[0] of an entry { value, isReal }
FirstKey(item) == <<"value">>
\* removeChaffFromData: split('_'), pop(), join('_')
OriginalKey(item) ==
    LET keyParts == FirstKey(item)
    IN  SubSeq(keyParts, 1, Len(keyParts) - 1)

\* removeChaffFromData(data): reading isReal of an undefined entry throws;
\* otherwise result[originalKey] = item.value for each real entry in order
RemoveChaffFromData(data) ==
    LET real == { index \in DOMAIN data : data[index].isReal }
    IN  IF \E index \in DOMAIN data : data[index] = Undefined
        THEN [threw |-> TRUE, result |-> << >>]
        ELSE [threw  |-> FALSE,
              result |->
                  [key \in { OriginalKey(data[index]) : index \in real } |->
                      LET at == { index \in real :
                                      OriginalKey(data[index]) = key }
                      IN  data[CHOOSE p \in at : \A q \in at : q <= p].value]]

\* the object that data denotes, as a map from property names to values
AsMap(data) ==
    [key \in { data[k].key : k \in DOMAIN data } |->
        data[CHOOSE k \in DOMAIN data : data[k].key = key].value]

\* SpecChaff: addChaffToData, removeChaffFromData and shuffleArray as
\* functions of their argument and of the random draws.  Init draws the
\* arguments; every action keeps them in lastCall.
ShuffleArrays ==
    { [k \in 1..n |-> [key |-> FieldName(k)]] : n \in 0..MaxArray }

InitChaff ==
    /\ keyStore = Empty
    /\ dataStore = Empty
    /\ metaStore = Empty
    /\ auditStore = << >>
    /\ isAuthenticated = FALSE
    /\ isInitialized = FALSE
    /\ isLoading = TRUE
    /\ masterKey = NoKey
    /\ items = << >>
    /\ error = NoError
    /\ mounted = FALSE
    /\ now = 0
    /\ nextId = 0
    /\ exportFile = NoFile
    /\ \E data \in FieldData, chaffRatio \in 0..MaxRatio,
          array \in ShuffleArrays :
           lastCall = [op |-> "none", data |-> data, ratio |-> chaffRatio,
                       input |-> array]
    /\ tracked = NoItem
    /\ vault = NoItem
    /\ faults = 0
    /\ calls = << >>

\* the call of CryptoProvider.addChaff(data, ratio) on the drawn data
AddChaff ==
    /\ lastCall.op = "none"
    /\ \E suffix \in [1..(Len(lastCall.data) * (lastCall.ratio + 1))
                          -> Suffixes],
          chaff \in [{ p \in 1..(Len(lastCall.data) * (lastCall.ratio + 1)) :
                          (p - 1) % (lastCall.ratio + 1) # 0 }
                          -> MathRandom],
          bytes \in [1..(Len(lastCall.data) * (lastCall.ratio + 1) - 1)
                          -> ShuffleBytes] :
           lastCall' = [op |-> "addChaffToData", data |-> lastCall.data,
                        ratio |-> lastCall.ratio, input |-> lastCall.input,
                        chaffed |-> AddChaffToData(lastCall.data,
                                        lastCall.ratio, suffix, chaff, bytes)]
    /\ UNCHANGED <<storeVars, authVars, dataVars, mounted, now, nextId,
                   exportFile, tracked, vault, faults, calls>>

\* a call of CryptoProvider.removeChaff on what addChaff returned
RemoveChaff ==
    /\ lastCall.op = "addChaffToData"
    /\ \E r \in {RemoveChaffFromData(lastCall.chaffed)} :
           lastCall' = [op |-> "removeChaffFromData", data |-> lastCall.data,
                        ratio |-> lastCall.ratio, input |-> lastCall.input,
                        chaffed |-> lastCall.chaffed, threw |-> r.threw,
                        result |-> r.result]
    /\ UNCHANGED <<storeVars, authVars, dataVars, mounted, now, nextId,
                   exportFile, tracked, vault, faults, calls>>

\* shuffleArray(array) is entered: i = array.length - 1
ShuffleEnter ==
    /\ lastCall' = [op |-> "shuffleArray", data |-> lastCall.data,
                    ratio |-> lastCall.ratio, input |-> lastCall.input,
                    array |-> lastCall.input, i |-> Len(lastCall.input) - 1,
                    at |-> 0, j |-> 0, swaps |-> 0]
    /\ UNCHANGED <<storeVars, authVars, dataVars, mounted, now, nextId,
                   exportFile, tracked, vault, faults, calls>>

\* shuffleArray, one iteration of the loop with the byte drawn in it
ShuffleStep(byte) ==
    /\ lastCall.op = "shuffleArray"
    /\ lastCall.i > 0
    /\ \E j \in {SwapIndex(lastCall.i, byte)} :
           lastCall' = [lastCall EXCEPT
                            !.array = Swap(lastCall.array, lastCall.i, j),
                            !.i = lastCall.i - 1, !.at = lastCall.i,
                            !.j = j, !.swaps = lastCall.swaps + 1]
    /\ UNCHANGED <<storeVars, authVars, dataVars, mounted, now, nextId,
                   exportFile, tracked, vault, faults, calls>>

NextChaff ==
    \/ AddChaff
    \/ RemoveChaff
    \/ ShuffleEnter
    \/ \E byte \in RandomBytes : ShuffleStep(byte)

SpecChaff == InitChaff /\ [][NextChaff]_vars

(***************************************************************************)
(* utils/crypto: encryptData and decryptData on the envelope's texts.  The *)
(* ciphertext and the iv of an envelope are base64 texts; atob decodes a   *)
(* text forgivingly (white space is skipped, the unused bits of the last   *)
(* character are dropped), so several texts decode to the same bytes.      *)
(***************************************************************************)
\* JavaScript values handed to encryptData
SealValues  ==
    { [kind |-> "string", v |-> "secret"], [kind |-> "number", v |-> "7"],
      [kind |-> "date", v |-> "2024-01-01T00:00:00.000Z"],
      [kind |-> "undefined", v |-> ""] }
SealKeys    == { DeriveKeyFromPassword(password, 1) : password \in Passwords }
SealIVs     == {1, 2}

\* JSON.stringify: a Date is written as its ISO string
ToJSON(value) ==
    IF value.kind = "date" THEN [kind |-> "string", v |-> value.v] ELSE value

\* encoder.encode(JSON.stringify(data)): JSON.stringify(undefined) is
\* undefined, which encodes to no bytes
EncodeJson(data) ==
    IF data.kind = "undefined" THEN NotJson ELSE JsonStringify(ToJSON(data))

\* btoa of bytes; spelling 0 is the text btoa writes
ArrayBufferToBase64(buffer) ==
    [tag |-> "base64", bytes |-> buffer, spelling |-> 0]
\* a text atob rejects with InvalidCharacterError
NotBase64 == [tag |-> "text"]
IsBase64(text) == text.tag = "base64"
\* atob of a text it accepts
Base64ToArrayBuffer(base64) == base64.bytes

\* encryptData on texts
SealEnvelope(data, key, iv) ==
    [ciphertext |-> ArrayBufferToBase64(
                        [tag |-> "aesgcm", k |-> key, n |-> iv,
                         p |-> EncodeJson(data)]),
     iv |-> ArrayBufferToBase64(iv)]

AtobError    == "InvalidCharacterError"
DecryptError == "Failed to decrypt data. The key may be incorrect."
NoThrow      == "none"

\* decryptData on texts: both atob calls are made before the try block;
\* inside it a rejected subtle.decrypt and a failed JSON.parse become the
\* decryption error
OpenEnvelope(ciphertext, iv, key) ==
    IF ~IsBase64(ciphertext) \/ ~IsBase64(iv)
    THEN [threw |-> AtobError, value |-> NoItem]
    ELSE LET ciphertextBuffer == Base64ToArrayBuffer(ciphertext)
             ivBuffer         == Base64ToArrayBuffer(iv)
         IN  IF /\ DecryptOk(ciphertextBuffer, ivBuffer, key)
                /\ IsJson(ciphertextBuffer.p)
             THEN [threw |-> NoThrow,
                   value |-> DecryptData(ciphertextBuffer, ivBuffer, key)]
             ELSE [threw |-> DecryptError, value |-> NoItem]

\* CryptoProvider.decrypt on texts: null without a key and on every error
ProviderDecrypt(key, ciphertext, iv) ==
    IF key = NoKey THEN NoItem
    ELSE LET opened == OpenEnvelope(ciphertext, iv, key)
         IN  IF opened.threw = NoThrow THEN opened.value ELSE NoItem

\* what can be done to a text of a stored envelope
Alterations == {"bytes", "spelling", "garbage"}
\* how = "bytes" makes the text decode to the bytes other
AlterText(text, how, other) ==
    IF how = "garbage" \/ ~IsBase64(text) THEN NotBase64
    ELSE IF how = "spelling" THEN [text EXCEPT !.spelling = 1]
    ELSE [text EXCEPT !.bytes = other]

\* SpecEnvelope: a value is sealed, the envelope's texts are altered or
\* not, and the envelope is opened with some key
InitEnvelope ==
    /\ keyStore = Empty
    /\ dataStore = Empty
    /\ metaStore = Empty
    /\ auditStore = << >>
    /\ isAuthenticated = FALSE
    /\ isInitialized = FALSE
    /\ isLoading = TRUE
    /\ masterKey = NoKey
    /\ items = << >>
    /\ error = NoError
    /\ mounted = FALSE
    /\ now = 0
    /\ nextId = 0
    /\ exportFile = NoFile
    /\ \E data \in SealValues, key \in SealKeys, iv \in SealIVs :
           lastCall = [op |-> "none", data |-> data, key |-> key, iv |-> iv]
    /\ tracked = NoItem
    /\ vault = NoItem
    /\ faults = 0
    /\ calls = << >>

\* encryptData(data, key) with the iv drawn
Seal ==
    /\ lastCall.op = "none"
    /\ \E sealed \in {SealEnvelope(lastCall.data, lastCall.key, lastCall.iv)} :
           lastCall' = [op |-> "encryptData", data |-> lastCall.data,
                        key |-> lastCall.key, iv |-> lastCall.iv,
                        sealed |-> sealed, envelope |-> sealed]
    /\ UNCHANGED <<storeVars, authVars, dataVars, mounted, now, nextId,
                   exportFile, tracked, vault, faults, calls>>

\* the stored ciphertext text is altered
AlterCiphertext(how) ==
    /\ lastCall.op \in {"encryptData", "alter"}
    /\ lastCall' =
           [op |-> "alter", data |-> lastCall.data, key |-> lastCall.key,
            iv |-> lastCall.iv, sealed |-> lastCall.sealed,
            envelope |->
                [lastCall.envelope EXCEPT
                     !.ciphertext =
                         AlterText(@, how, [tag |-> "altered"])]]
    /\ UNCHANGED <<storeVars, authVars, dataVars, mounted, now, nextId,
                   exportFile, tracked, vault, faults, calls>>

\* the stored iv text is altered
AlterIv(how) ==
    /\ lastCall.op \in {"encryptData", "alter"}
    /\ lastCall' =
           [op |-> "alter", data |-> lastCall.data, key |-> lastCall.key,
            iv |-> lastCall.iv, sealed |-> lastCall.sealed,
            envelope |->
                [lastCall.envelope EXCEPT
                     !.iv = AlterText(@, how, lastCall.iv + 1)]]
    /\ UNCHANGED <<storeVars, authVars, dataVars, mounted, now, nextId,
                   exportFile, tracked, vault, faults, calls>>

\* decryptData(ciphertext, iv, key) and CryptoProvider.decrypt(ciphertext,
\* iv) under the master key key
Open(key) ==
    /\ lastCall.op \in {"encryptData", "alter"}
    /\ \E opened \in {OpenEnvelope(lastCall.envelope.ciphertext,
                                   lastCall.envelope.iv, key)} :
           lastCall' =
               [op |-> "decryptData", data |-> lastCall.data,
                key |-> lastCall.key, iv |-> lastCall.iv,
                sealed |-> lastCall.sealed, envelope |-> lastCall.envelope,
                with |-> key, threw |-> opened.threw, value |-> opened.value,
                decrypt |-> ProviderDecrypt(key, lastCall.envelope.ciphertext,
                                            lastCall.envelope.iv)]
    /\ UNCHANGED <<storeVars, authVars, dataVars, mounted, now, nextId,
                   exportFile, tracked, vault, faults, calls>>

NextEnvelope ==
    \/ Seal
    \/ \E how \in Alterations : AlterCiphertext(how)
    \/ \E how \in Alterations : AlterIv(how)
    \/ \E key \in SealKeys : Open(key)

SpecEnvelope == InitEnvelope /\ [][NextEnvelope]_vars

(***************************************************************************)
(* DataProvider, step by step.  A call of createItem, updateItem,          *)
(* deleteItem or refreshItems runs in the closure of the render it was     *)
(* made in: isAuthenticated is tested once, on entry, and encrypt and      *)
(* decrypt use the master key of that render.  The call is suspended at    *)
(* each storage operation; another call, a login or a logout may run       *)
(* before the operation lands.                                             *)
(***************************************************************************)
MaxCalls     == 2     \* DataProvider calls made in one behaviour of SpecAsync
AsyncAudit   == 6     \* audit events held by the audit store in SpecAsync
AsyncUpdates == { [name |-> "Bank2"], [data |-> "d2"] }

\* a call in flight: pc is the operation it is suspended at, key the master
\* key of its closure, encrypted what it will store, loaded what its
\* refreshItems has read
Call(op, id, key, pc, encrypted, updates) ==
    [op |-> op, id |-> id, key |-> key, pc |-> pc, ok |-> FALSE,
     encrypted |-> encrypted, updates |-> updates, t |-> now,
     loaded |-> << >>]

\* updateItem: await getData(id), await decrypt(...)
CurrentItem(st, key, id) ==
    LET encryptedItem == GetData(st, id)
    IN  IF encryptedItem = NoItem THEN NoItem
        ELSE CryptoDecrypt(key, encryptedItem.ciphertext, encryptedItem.iv)

\* the entry of a call: the closure's isAuthenticated is tested
Enter(op) ==
    /\ mounted
    /\ isAuthenticated
    /\ Len(calls) < MaxCalls
    /\ lastCall' = [op |-> op, call |-> Len(calls) + 1, pc |-> "enter"]
    /\ UNCHANGED <<storeVars, authVars, items, mounted, now, exportFile,
                   tracked, vault, faults>>

\* createItem up to the call of storeData: the new item is encrypted under
\* the closure's key; a null from encrypt ends the call in the catch block
BeginCreate(item, iv) ==
    /\ Enter("createItem")
    /\ nextId < ListItems
    /\ nextId' = nextId + 1
    /\ \E encrypted \in {CryptoEncrypt(masterKey, NewItem(item, now), iv,
                                       FALSE)} :
           /\ calls' = Append(calls,
                  Call("createItem", nextId + 1, masterKey,
                       IF encrypted = NoItem THEN "done" ELSE "store",
                       encrypted, item))
           /\ error' = IF encrypted = NoItem THEN "Failed to create item"
                       ELSE NoError

\* updateItem up to the call of storeData: the record is read, opened and
\* merged, and the merged item is encrypted under the closure's key
BeginUpdate(id, updates, iv) ==
    /\ Enter("updateItem")
    /\ nextId' = nextId
    /\ \E currentItem \in {CurrentItem(St, masterKey, id)} :
       \E encrypted \in
              {IF currentItem = NoItem THEN NoItem
               ELSE CryptoEncrypt(masterKey,
                                  MergeItem(currentItem, updates, now), iv,
                                  FALSE)} :
           /\ calls' = Append(calls,
                  Call("updateItem", id, masterKey,
                       IF encrypted = NoItem THEN "done" ELSE "store",
                       encrypted, updates))
           /\ error' = IF encrypted = NoItem THEN "Failed to update item"
                       ELSE NoError

\* deleteItem up to the call of removeData
BeginDelete(id) ==
    /\ Enter("deleteItem")
    /\ nextId' = nextId
    /\ calls' = Append(calls, Call("deleteItem", id, masterKey, "remove",
                                   NoItem, Empty))
    /\ error' = NoError

\* refreshItems called by a page, up to the call of listData
BeginRefresh ==
    /\ Enter("refreshItems")
    /\ nextId' = nextId
    /\ calls' = Append(calls, Call("refreshItems", 0, masterKey, "load",
                                   NoItem, Empty))
    /\ error' = NoError

\* the audit event a call appends after its write
CallEvent(call, t) ==
    IF call.op = "createItem"
    THEN AuditEvent("ITEM_CREATE", call.t,
                    [id |-> call.id, type |-> call.updates.type])
    ELSE IF call.op = "updateItem"
    THEN AuditEvent("ITEM_UPDATE", t, [id |-> call.id])
    ELSE AuditEvent("ITEM_DELETE", t, [id |-> call.id])

\* the operation a call is suspended at lands and the call runs on to its
\* next operation: storeData or removeData, logAuditEvent, the reads of
\* refreshItems, and setItems with the call's return
Resume(c) ==
    /\ c \in DOMAIN calls
    /\ calls[c].pc # "done"
    /\ LET call == calls[c]
           pc   == call.pc
       IN  /\ SetStores(
                  IF pc = "store"
                  THEN StoreData(St, call.id, call.encrypted)
                  ELSE IF pc = "remove" THEN RemoveData(St, call.id)
                  ELSE IF pc = "log"
                  THEN LogAuditEvent(St, CallEvent(call, now))
                  ELSE St)
           /\ calls' =
                  [calls EXCEPT
                       ![c].pc = IF pc \in {"store", "remove"} THEN "log"
                                 ELSE IF pc = "log" THEN "load"
                                 ELSE IF pc = "load" THEN "set"
                                 ELSE "done",
                       ![c].loaded =
                           IF pc = "load"
                           THEN RefreshItems(St, TRUE, call.key, items)
                           ELSE @,
                       ![c].ok = (pc = "set")]
           /\ items' = IF pc = "set" THEN call.loaded ELSE items
           /\ error' = IF pc = "load" THEN NoError ELSE error
           /\ lastCall' = [op |-> call.op, call |-> c, pc |-> pc]
    /\ UNCHANGED <<authVars, mounted, now, nextId, exportFile, tracked,
                   vault, faults>>

\* SpecAsync: one vault, one password; the item handlers of the atomic
\* model set the vault up, and up to MaxCalls calls run step by step
NextAsync ==
    \/ CheckInitialization
    \/ \E pw \in OnePassword, salt \in OneSalt :
            Initialize(pw, salt, 0, FALSE) /\ Capped(AsyncAudit)
    \/ \E pw \in OnePassword : Login(pw, 0, FALSE) /\ Capped(AsyncAudit)
    \/ Logout
    \/ \E item \in InputItems, iv \in IVs :
            CreateItem(item, iv, 0) /\ Capped(AsyncAudit) /\ Within(MaxItems)
    \/ \E item \in InputItems, iv \in IVs : BeginCreate(item, iv)
    \/ \E id \in ItemIds, updates \in AsyncUpdates, iv \in IVs :
            BeginUpdate(id, updates, iv)
    \/ \E id \in ItemIds : BeginDelete(id)
    \/ BeginRefresh
    \/ \E c \in 1..MaxCalls : Resume(c) /\ Capped(AsyncAudit)

SpecAsync == Init /\ [][NextAsync]_vars

\* SpecRotation: one vault and its logins over MaxDays days, a day at a
\* time
MaxDays       == 31   \* days the clock advances in SpecRotation
RotationAudit == 3    \* audit events held by the audit store in SpecRotation

TickDay ==
    /\ now < MaxDays
    /\ now' = now + 1
    /\ UNCHANGED <<storeVars, authVars, dataVars, mounted, nextId, exportFile,
                   lastCall, tracked, vault, faults, calls>>

NextRotation ==
    \/ CheckInitialization
    \/ \E pw \in OnePassword, salt \in OneSalt :
            Initialize(pw, salt, 0, FALSE) /\ Capped(RotationAudit)
    \/ \E pw \in Passwords : Login(pw, 0, FALSE) /\ Capped(RotationAudit)
    \/ TickDay

SpecRotation == Init /\ [][NextRotation]_vars

(***************************************************************************)
(* utils/storage: the audit store by its keys.  logAuditEvent stores the   *)
(* event under "log_" + Date.now() + "_" + seven base-36 digits of         *)
(* Math.random(); setItem replaces the value of a key the store holds.     *)
(* In SpecLog auditStore is the map from log ids to events and the clock   *)
(* counts milliseconds.                                                    *)
(***************************************************************************)
MaxMs       == 2      \* milliseconds the clock advances in SpecLog
MaxEntries  == 3      \* logAuditEvent calls of one behaviour of SpecLog
LogSuffixes == {"k3j9x2a", "p0q8r7s"}   \* outcomes of the random suffix
LoggedTypes == {"ITEM_UPDATE", "ITEM_DELETE"}

LogId(t, suffix) == <<"log", t, suffix>>

\* logAuditEvent on the keyed store
LogAuditEventKeyed(store, event, t, suffix) ==
    Put(store, LogId(t, suffix), event)

InitLog ==
    /\ keyStore = Empty
    /\ dataStore = Empty
    /\ metaStore = Empty
    /\ auditStore = Empty
    /\ isAuthenticated = FALSE
    /\ isInitialized = FALSE
    /\ isLoading = TRUE
    /\ masterKey = NoKey
    /\ items = <<>>
    /\ error = NoError
    /\ mounted = FALSE
    /\ now = 0
    /\ nextId = 0
    /\ exportFile = NoFile
    /\ lastCall = [op |-> "none"]
    /\ tracked = NoItem
    /\ vault = NoItem
    /\ faults = 0
    /\ calls = << >>

\* a call of logAuditEvent; nextId counts the calls made
LogEvent(type, suffix) ==
    /\ nextId < MaxEntries
    /\ nextId' = nextId + 1
    /\ \E event \in {AuditEvent(type, now, [id |-> 1])} :
           /\ auditStore' = LogAuditEventKeyed(auditStore, event, now, suffix)
           /\ lastCall' = [op |-> "logAuditEvent", id |-> LogId(now, suffix),
                           event |-> event,
                           entries |-> Cardinality(DOMAIN auditStore)]
    /\ UNCHANGED <<keyStore, dataStore, metaStore, authVars, dataVars, mounted,
                   now, exportFile, tracked, vault, faults, calls>>

\* a call of getAuditLogs: the store is iterated, not written
IterateLog ==
    /\ lastCall' = [op |-> "getAuditLogs",
                    entries |-> Cardinality(DOMAIN auditStore)]
    /\ UNCHANGED <<storeVars, authVars, dataVars, mounted, now, nextId,
                   exportFile, tracked, vault, faults, calls>>

\* clearAllData on the audit store
ClearLog ==
    /\ auditStore # Empty
    /\ auditStore' = Empty
    /\ lastCall' = [op |-> "clearAllData"]
    /\ UNCHANGED <<keyStore, dataStore, metaStore, authVars, dataVars, mounted,
                   now, nextId, exportFile, tracked, vault, faults, calls>>

TickMs ==
    /\ now < MaxMs
    /\ now' = now + 1
    /\ UNCHANGED <<storeVars, authVars, dataVars, mounted, nextId, exportFile,
                   lastCall, tracked, vault, faults, calls>>

NextLog ==
    \/ \E type \in LoggedTypes, suffix \in LogSuffixes : LogEvent(type, suffix)
    \/ IterateLog
    \/ ClearLog
    \/ TickMs

SpecLog == InitLog /\ [][NextLog]_vars

(***************************************************************************)
(* AuthProvider.initialize and AuthProvider.login in two steps: the entry  *)
(* with its setIsLoading(true), and the rest of the call once the awaited  *)
(* initializeAuth or authenticateWithPassword has settled.  The Login page *)
(* does not wait for isLoading, so calls may overlap.  The promises of the *)
(* storage backend and of crypto.subtle settle: every call entered gets    *)
(* to run on (weak fairness of FinishCall).                                *)
(***************************************************************************)
MaxAuthCalls == 3     \* initialize and login calls of one behaviour

\* the entry of initialize or login: setIsLoading(true), then the await
EnterAuthCall(op, password) ==
    /\ mounted
    /\ Len(calls) < MaxAuthCalls
    /\ isLoading' = TRUE
    /\ calls' = Append(calls, [op |-> op, pw |-> password, pc |-> "await"])
    /\ lastCall' = [op |-> "enter", of |-> op, pw |-> password]
    /\ UNCHANGED <<storeVars, isAuthenticated, isInitialized, masterKey,
                   dataVars, mounted, now, nextId, exportFile, tracked, vault,
                   faults>>

BeginInitialize(password) ==
    /\ ~isInitialized
    /\ EnterAuthCall("initialize", password)

BeginLogin(password) ==
    /\ isInitialized
    /\ EnterAuthCall("login", password)

\* call c runs from its await to its end
FinishInitialize(c, salt, fault, catchFault) ==
    /\ c \in DOMAIN calls
    /\ calls[c].op = "initialize"
    /\ calls[c].pc = "await"
    /\ InitializeRuns(calls[c].pw, salt, fault, catchFault)
    /\ calls' = [calls EXCEPT ![c].pc = "done"]

FinishLogin(c, fault, catchFault) ==
    /\ c \in DOMAIN calls
    /\ calls[c].op = "login"
    /\ calls[c].pc = "await"
    /\ LoginRuns(calls[c].pw, fault, catchFault)
    /\ calls' = [calls EXCEPT ![c].pc = "done"]

FinishCall(c) ==
    \/ \E salt \in OneSalt, fault \in 0..5, cf \in BOOLEAN :
            FinishInitialize(c, salt, fault, cf)
    \/ \E fault \in 0..2, cf \in BOOLEAN : FinishLogin(c, fault, cf)

\* SpecLoading: up to MaxAuthCalls calls of initialize and login, with
\* storage writes that may reject in MaxFaultyCalls of them
NextLoading ==
    \/ CheckInitialization
    \/ \E pw \in Passwords : BeginInitialize(pw)
    \/ \E pw \in Passwords : BeginLogin(pw)
    \/ \E c \in 1..MaxAuthCalls : FinishCall(c)

SpecLoading ==
    /\ Init
    /\ [][NextLoading]_vars
    /\ \A c \in 1..MaxAuthCalls : WF_vars(FinishCall(c))

TypeOK ==
    /\ isAuthenticated \in BOOLEAN
    /\ isInitialized \in BOOLEAN
    /\ isLoading \in BOOLEAN
    /\ mounted \in BOOLEAN
    /\ nextId \in 0..ListItems
    /\ faults \in 0..MaxFaultyCalls
    /\ Len(auditStore) <= AsyncAudit
    /\ Len(calls) <= MaxCalls \/ Len(calls) <= MaxAuthCalls

(***************************************************************************)
(* Claims.                                                                 *)
(***************************************************************************)
\* the persisted masterKey and authSalt are those the last successful
\* initializeAuth wrote
VaultAsWritten ==
    /\ vault # NoItem
    /\ GetKey(St, "masterKey")
         = ExportKey(DeriveKeyFromPassword(vault.pw, vault.salt))
    /\ HasMeta(St, "authSalt")
    /\ GetMeta(St, "authSalt") = SaltToHex(vault.salt)

\* C1, the returned outcome: a call of authenticateWithPassword(P) made
\* while the persisted masterKey and authSalt are as initializeAuth(P1)
\* wrote them returns success exactly when P = P1, with the key derived
\* from P1 and the salt on success and with no key on failure
C1_Outcome ==
    (lastCall.op = "login" /\ VaultAsWritten) =>
        /\ lastCall.authSuccess <=> (lastCall.pw = vault.pw)
        /\ lastCall.authSuccess =>
               lastCall.authKey = DeriveKeyFromPassword(vault.pw, vault.salt)
        /\ ~lastCall.authSuccess => lastCall.authKey = NoKey

\* C1, the effect of a wrong password: such a login leaves isAuthenticated
\* and the in-memory master key as they were
C1_WrongPasswordStep ==
    \A pw \in Passwords :
        (Login(pw, 0, FALSE) /\ VaultAsWritten /\ pw # vault.pw) =>
            UNCHANGED <<isAuthenticated, masterKey>>

\* C1: after initializeAuth(P1) returned true, and while the persisted
\* masterKey and authSalt are as it wrote them, authenticateWithPassword(P)
\* succeeds and returns a key iff P = P1; for P # P1 it returns failure and
\* no key, and login leaves isAuthenticated and masterKey unchanged
C1_PasswordDecides == []C1_Outcome /\ [][C1_WrongPasswordStep]_vars

\* C1 happens: a login with the vault's password succeeded and unlocked
C1_Witness ==
    /\ lastCall.op = "login"
    /\ VaultAsWritten
    /\ lastCall.pw = vault.pw
    /\ lastCall.authSuccess
    /\ isAuthenticated
    /\ masterKey = DeriveKeyFromPassword(vault.pw, vault.salt)

\* C1 also happens for a wrong password while a session is open
C1_WitnessWrong ==
    /\ lastCall.op = "login"
    /\ VaultAsWritten
    /\ lastCall.pw # vault.pw
    /\ ~lastCall.authSuccess
    /\ isAuthenticated

\* C2: isAuthenticated is true only after a successful login since the last
\* logout, so whenever isAuthenticated holds the in-memory master key is
\* held -- for every content of the stores that checkInitialization finds
C2_AuthenticatedHoldsKey == isAuthenticated => masterKey # NoKey

\* C2 fails here: checkInitialization found vaultInitialized set and no
\* masterKey entry, and set isAuthenticated with no key in memory
C2_AuthenticatedWithoutKey ==
    /\ lastCall.op = "checkInitialization"
    /\ IsVaultInitialized(St)
    /\ GetKey(St, "masterKey") = NoKey
    /\ isAuthenticated
    /\ masterKey = NoKey

\* C3: a record created by createItem is returned by getItem with the same
\* name, type and data in every later session unlocked with the same
\* password, whatever number of logouts, reloads and failed authentication
\* attempts lie between (tracked is the created record and what followed)
C3_CreatedItemReadBack ==
    (tracked # NoItem /\ isAuthenticated) =>
        /\ LET got == GetItemResult(St, masterKey, tracked.id)
           IN  /\ got # NoItem
               /\ got.name = tracked.item.name
               /\ got.type = tracked.item.type
               /\ got.data = tracked.item.data
        /\ (lastCall.op = "getItem" /\ lastCall.id = tracked.id) =>
               lastCall.item = WithId(tracked.id, tracked.item)

\* C3 happens: getItem returned the record in a session opened after a
\* logout and a failed login
C3_Witness ==
    /\ tracked # NoItem
    /\ tracked.logouts = 1
    /\ tracked.failed = 1
    /\ isAuthenticated
    /\ lastCall.op = "getItem"
    /\ lastCall.id = tracked.id
    /\ lastCall.item = WithId(tracked.id, tracked.item)

\* C4, the calls: createItem and updateItem made without a master key, or
\* whose encryption fails, leave the four stores as they were
C4_NoKeyNoWrite ==
    \A item \in InputItems, u \in ItemUpdates, id \in ItemIds, iv \in IVs :
        /\ CreateItemResult(St, NoKey, id, item, now, iv, 0).st = St
        /\ CreateItemResult(St, masterKey, id, item, now, iv, 1).st = St
        /\ UpdateItemResult(St, NoKey, id, u, now, iv, 0).st = St
        /\ UpdateItemResult(St, masterKey, id, u, now, iv, 1).st = St

\* C4, the stored values: each is an envelope
C4_StoredEnvelopes == \A id \in DOMAIN dataStore : IsEnvelope(dataStore[id])

\* C4: every value in the records namespace is an encrypted envelope
\* {ciphertext, iv}, after any create, update, delete and import of an
\* exported document; createItem and updateItem write nothing when no key
\* is held or the encryption fails
C4_RecordsAreEnvelopes ==
    /\ C4_StoredEnvelopes
    /\ C4_NoKeyNoWrite
    /\ (lastCall.op = "createItem" /\ lastCall.id = 0) =>
           (~lastCall.wrote /\ lastCall.logged = 0)
    /\ (lastCall.op = "updateItem" /\ ~lastCall.ok) =>
           (~lastCall.wrote /\ lastCall.logged = 0)

\* C4 happens: an import of an exported document wrote records
C4_Witness ==
    /\ lastCall.op = "importVaultData"
    /\ lastCall.ok
    /\ dataStore # Empty
    /\ \A id \in DOMAIN dataStore : IsEnvelope(dataStore[id])

\* C4 also happens for a createItem whose encryption failed
C4_WitnessEncryptionFailed ==
    /\ lastCall.op = "createItem"
    /\ lastCall.id = 0
    /\ faults = 1
    /\ dataStore = Empty

\* the last call was createItem, updateItem or deleteItem by an
\* authenticated caller, and whether it returned success
IsRecordCall == lastCall.op \in {"createItem", "updateItem", "deleteItem"}
RecordCallSucceeded ==
    IF lastCall.op = "createItem" THEN lastCall.id # 0 ELSE lastCall.ok
RecordEventType ==
    CASE lastCall.op = "createItem" -> "ITEM_CREATE"
      [] lastCall.op = "updateItem" -> "ITEM_UPDATE"
      [] OTHER                      -> "ITEM_DELETE"
LastEventNamesCall ==
    /\ auditStore # <<>>
    /\ auditStore[Len(auditStore)].type = RecordEventType
    /\ auditStore[Len(auditStore)].details.id = lastCall.id

\* C5 as stated: every createItem, updateItem or deleteItem call that
\* modifies the records namespace appends exactly one audit event naming
\* the id, and a call that ends without modifying it appends none, also
\* when a storage call fails part-way
C5_EventIffModified ==
    IsRecordCall =>
        /\ lastCall.wrote => (lastCall.logged = 1 /\ LastEventNamesCall)
        /\ ~lastCall.wrote => lastCall.logged = 0

\* C5 amended: a createItem, updateItem or deleteItem call that returns
\* success appended exactly one audit event, of the call's type and naming
\* its id, and a successful createItem or updateItem modified the records
\* namespace; a call that returns failure appended none
C5_EventIffSucceeded ==
    IsRecordCall =>
        /\ RecordCallSucceeded => (lastCall.logged = 1 /\ LastEventNamesCall)
        /\ (RecordCallSucceeded /\ lastCall.op # "deleteItem") => lastCall.wrote
        /\ ~RecordCallSucceeded => lastCall.logged = 0

\* C5 happens: deleteItem of an id that holds no record succeeded and
\* appended ITEM_DELETE
C5_Witness ==
    /\ lastCall.op = "deleteItem"
    /\ lastCall.ok
    /\ ~lastCall.wrote
    /\ lastCall.logged = 1
    /\ LastEventNamesCall

\* C5 happens: a createItem wrote the record and failed on the audit write
C5_WitnessAuditWriteFailed ==
    /\ lastCall.op = "createItem"
    /\ lastCall.id = 0
    /\ lastCall.wrote
    /\ lastCall.logged = 0

\* the audit event the last call appended last
LastEvent == auditStore[Len(auditStore)]
IsAuthAttempt(e, success) ==
    e.type = "AUTH_ATTEMPT" /\ e.details.success = success

\* what authenticateWithPassword finds in the stores for the last login
AuthDataMissing ==
    ~HasMeta(St, "authSalt") \/ GetKey(St, "masterKey") = NoKey
AuthMismatch ==
    /\ ~AuthDataMissing
    /\ ExportKey(DeriveKeyFromPassword(lastCall.pw,
                                       HexToSalt(GetMeta(St, "authSalt"))))
         # GetKey(St, "masterKey")

\* C6: every authenticateWithPassword call appends exactly one audit event,
\* and the event records the outcome the call returns: AUTH_ATTEMPT with
\* success = true iff the call returns success, AUTH_ATTEMPT with
\* success = false on a password mismatch, AUTH_ERROR when the salt or the
\* master key entry is missing
C6_OneEventRecordsOutcome ==
    lastCall.op = "login" =>
        /\ lastCall.logged = 1
        /\ ~lastCall.authThrew
        /\ IsAuthAttempt(LastEvent, TRUE) <=> lastCall.authSuccess
        /\ AuthMismatch => IsAuthAttempt(LastEvent, FALSE)
        /\ AuthDataMissing => LastEvent.type = "AUTH_ERROR"

\* C6 fails here: the call appended AUTH_ATTEMPT with success = true, then
\* AUTH_ERROR, and returned failure
C6_SuccessLoggedFailureReturned ==
    /\ lastCall.op = "login"
    /\ lastCall.logged = 2
    /\ ~lastCall.authSuccess
    /\ ~lastCall.ok
    /\ IsAuthAttempt(auditStore[Len(auditStore) - 1], TRUE)
    /\ LastEvent.type = "AUTH_ERROR"

\* C7: initializeAuth never throws to its caller: when one of its storage
\* writes fails it returns false and appends an AUTH_INIT audit event with
\* success = false and the error message
C7_InitializeNeverThrows ==
    (lastCall.op = "initialize" /\ lastCall.authFault) =>
        /\ ~lastCall.authThrew
        /\ ~lastCall.authOk
        /\ auditStore # <<>>
        /\ LastEvent.type = "AUTH_INIT"
        /\ LastEvent.details = [success |-> FALSE, error |-> StorageErrorMsg]

\* C7 fails here: a write of initializeAuth failed, the audit write of its
\* catch block failed too, and the call threw
C7_InitializeThrew ==
    /\ lastCall.op = "initialize"
    /\ lastCall.authFault
    /\ lastCall.authThrew
    /\ ~lastCall.ok
    /\ auditStore = <<>>

\* C8: once initializeAuth has succeeded the persisted authSalt never
\* changes until clearAllData, under any sequence of authenticate, logout,
\* create, update, delete, export, import and initialize; so the stored
\* masterKey is the key derived from the vault password and the stored salt
\* (vault is the password and salt of that initializeAuth, forgotten by
\* clearAllData)
C8_SaltImmutable ==
    vault # NoItem =>
        /\ HasMeta(St, "authSalt")
        /\ GetMeta(St, "authSalt") = SaltToHex(vault.salt)
        /\ GetKey(St, "masterKey")
             = ExportKey(DeriveKeyFromPassword(vault.pw,
                             HexToSalt(GetMeta(St, "authSalt"))))

\* C8 fails here: an import replaced the salt, and the stored master key is
\* no longer the key of the vault password under the stored salt
C8_SaltReplacedByImport ==
    /\ vault # NoItem
    /\ lastCall.op = "importVaultData"
    /\ HasMeta(St, "authSalt")
    /\ GetMeta(St, "authSalt") # SaltToHex(vault.salt)
    /\ GetKey(St, "masterKey")
         # ExportKey(DeriveKeyFromPassword(vault.pw,
                         HexToSalt(GetMeta(St, "authSalt"))))

\* a step ends the unlocked session: isAuthenticated or the in-memory
\* master key is cleared
SessionCleared ==
    \/ isAuthenticated /\ ~isAuthenticated'
    \/ masterKey # NoKey /\ masterKey' = NoKey

\* C9, the steps: only logout -- called by the user or by handleReset after
\* clearAllData -- clears isAuthenticated or the in-memory key; a reload
\* constructs the providers anew
C9_OnlyLogoutClears ==
    SessionCleared => lastCall'.op \in {"logout", "handleReset", "reload"}

\* C9, logout: it leaves isAuthenticated false and the master key null
C9_LogoutLocks ==
    lastCall.op = "logout" => (~isAuthenticated /\ masterKey = NoKey)

\* C9: the only transition from Unlocked to Locked is logout, which sets
\* isAuthenticated = false and masterKey = null; no failed login, failed or
\* successful create, update or delete, export, import or audit query
\* clears isAuthenticated or the in-memory key of an unlocked session
C9_OnlyLogoutLocks == []C9_LogoutLocks /\ [][C9_OnlyLogoutClears]_vars

\* C9 happens: a failed login in an unlocked session left it unlocked
C9_Witness ==
    /\ lastCall.op = "login"
    /\ ~lastCall.ok
    /\ isAuthenticated
    /\ masterKey # NoKey

\* C10: getItem(id) returns absent only when no entry exists under id in
\* the records namespace; for an entry that cannot be opened it reports an
\* error the caller can tell from absent, and it never returns partial or
\* altered data
C10_AbsentOnlyWhenNoEntry ==
    lastCall.op = "getItem" =>
        /\ (lastCall.item = NoItem /\ Has(dataStore, lastCall.id)) =>
               error # NoError
        /\ lastCall.item # NoItem =>
               /\ Has(dataStore, lastCall.id)
               /\ dataStore[lastCall.id].ciphertext.p
                    = JsonStringify([f \in DOMAIN lastCall.item \ {"id"} |->
                                        lastCall.item[f]])
               /\ lastCall.item.id = lastCall.id

\* C10 fails here: an entry sealed under another key exists, getItem
\* returned null and set no error
C10_UnopenableReadAsAbsent ==
    /\ lastCall.op = "getItem"
    /\ lastCall.item = NoItem
    /\ Has(dataStore, lastCall.id)
    /\ masterKey # NoKey
    /\ dataStore[lastCall.id].ciphertext.k # masterKey
    /\ error = NoError

\* the step is a call of the handler op: every handler sets lastCall and
\* only the clock's step leaves it as it was
Called(op) == lastCall'.op = op /\ now' = now

\* the record stored under id, opened with the key k; NoItem when there is
\* no entry or it does not open
Opened(data, k, id) ==
    IF ~Has(data, id) THEN NoItem
    ELSE CryptoDecrypt(k, data[id].ciphertext, data[id].iv)

\* every entry of the records namespace other than id is as it was
OtherRecordsUnchanged(id) ==
    /\ DOMAIN dataStore' \ {id} = DOMAIN dataStore \ {id}
    /\ \A j \in DOMAIN dataStore \ {id} : dataStore'[j] = dataStore[j]

\* C11: a successful updateItem(id, updates) replaces the stored record by
\* the shallow merge of the previously stored record with updates: every
\* field not named in updates (createdAt included) keeps its value, every
\* field named in updates takes the new value, updatedAt is the current
\* time, and no other record changes
C11_MergeStep ==
    (Called("updateItem") /\ lastCall'.ok) =>
        LET id  == lastCall'.id
            u   == lastCall'.updates
            old == Opened(dataStore, masterKey, id)
            new == Opened(dataStore', masterKey, id)
        IN  /\ old # NoItem
            /\ new # NoItem
            /\ DOMAIN new = DOMAIN old \cup DOMAIN u
            /\ \A f \in DOMAIN new \ {"updatedAt"} :
                   new[f] = IF f \in DOMAIN u THEN u[f] ELSE old[f]
            /\ new.updatedAt = now
            /\ OtherRecordsUnchanged(id)
C11_UpdateMerges == [][C11_MergeStep]_vars

\* C11 happens: with two records stored, an update made a day or more after
\* the creation succeeded and changed the record's name only
C11_Witness ==
    /\ lastCall.op = "updateItem"
    /\ lastCall.ok
    /\ lastCall.updates = [name |-> "Bank2"]
    /\ Cardinality(DOMAIN dataStore) = 2
    /\ Opened(dataStore, masterKey, lastCall.id) # NoItem
    /\ Opened(dataStore, masterKey, lastCall.id).createdAt < now
    /\ Opened(dataStore, masterKey, lastCall.id).updatedAt = now
    /\ Opened(dataStore, masterKey, lastCall.id).data = "d1"

\* C12: updateItem(id, updates) on an id that has no entry, or whose entry
\* does not decrypt with the active key, returns false and leaves the
\* records namespace and the audit log exactly as they were
C12_FailedStep ==
    (Called("updateItem")
       /\ Opened(dataStore, masterKey, lastCall'.id) = NoItem) =>
        /\ ~lastCall'.ok
        /\ dataStore' = dataStore
        /\ auditStore' = auditStore
C12_FailedUpdateWritesNothing == [][C12_FailedStep]_vars

\* C12 happens: updateItem was called on an entry sealed under another key
\* than the active one; it returned false and the entry is still there
C12_Witness ==
    /\ lastCall.op = "updateItem"
    /\ ~lastCall.ok
    /\ masterKey # NoKey
    /\ Has(dataStore, lastCall.id)
    /\ dataStore[lastCall.id].ciphertext.k # masterKey
    /\ error = "Failed to update item"

\* C12 happens as well for an id that has no entry
C12_WitnessMissing ==
    /\ lastCall.op = "updateItem"
    /\ ~lastCall.ok
    /\ masterKey # NoKey
    /\ ~Has(dataStore, lastCall.id)
    /\ dataStore # Empty

\* C13: while unlocked, deleteItem(id) returns true and appends one
\* ITEM_DELETE event naming id whether or not an entry exists under id;
\* afterwards no entry exists under id and every other record is unchanged
C13_DeleteStep ==
    Called("deleteItem") =>
        /\ lastCall'.ok
        /\ auditStore' = Append(auditStore,
               AuditEvent("ITEM_DELETE", now, [id |-> lastCall'.id]))
        /\ ~Has(dataStore', lastCall'.id)
        /\ OtherRecordsUnchanged(lastCall'.id)
C13_DeleteUnconditional == [][C13_DeleteStep]_vars

\* C13 happens: deleteItem of an id that held no entry succeeded and
\* logged, and the record stored under the other id is still there
C13_Witness ==
    /\ lastCall.op = "deleteItem"
    /\ lastCall.ok
    /\ ~lastCall.wrote
    /\ dataStore # Empty
    /\ auditStore # <<>>
    /\ auditStore[Len(auditStore)].type = "ITEM_DELETE"

\* C13 happens as well for an entry that existed, next to another record
C13_WitnessExisting ==
    /\ lastCall.op = "deleteItem"
    /\ lastCall.ok
    /\ lastCall.wrote
    /\ dataStore # Empty

\* the ids of the records namespace whose entry opens under the key k
Decryptable(data, k) ==
    { id \in DOMAIN data : Opened(data, k, id) # NoItem }

\* the step ran refreshItems to its end: the page called it, or a create,
\* update or delete that succeeded called it before returning
Refreshed ==
    \/ Called("refreshItems")
    \/ Called("createItem") /\ lastCall'.id # 0
    \/ Called("updateItem") /\ lastCall'.ok
    \/ Called("deleteItem") /\ lastCall'.ok

\* C14: refreshItems yields exactly the records of the records namespace
\* that decrypt under the active key, each once with its id attached,
\* ordered non-increasing by updatedAt; a record that fails to decrypt is
\* omitted without setting the error state and without keeping any other
\* record from the list
C14_ListingStep ==
    Refreshed =>
        /\ { items'[i].id : i \in 1..Len(items') }
             = Decryptable(dataStore', masterKey)
        /\ Len(items') = Cardinality(Decryptable(dataStore', masterKey))
        /\ \A i \in 1..Len(items') :
               [f \in DOMAIN items'[i] \ {"id"} |-> items'[i][f]]
                 = Opened(dataStore', masterKey, items'[i].id)
        /\ \A i, j \in 1..Len(items') :
               i < j => items'[i].updatedAt >= items'[j].updatedAt
        /\ error' = NoError
C14_ListingIsDecryptable == [][C14_ListingStep]_vars

\* C14 happens: the page refreshed while the first entry of the store did
\* not open under the active key and the second did; the list holds the
\* second alone and no error is set
C14_Witness ==
    /\ lastCall.op = "refreshItems"
    /\ Cardinality(DOMAIN dataStore) = 2
    /\ Decryptable(dataStore, masterKey) = {2}
    /\ Len(items) = 1
    /\ items[1].id = 2
    /\ error = NoError

\* C14 happens as well with two records that open, the newer one stored
\* under the larger id: the list starts with it
C14_WitnessOrder ==
    /\ lastCall.op = "refreshItems"
    /\ Len(items) = 2
    /\ items[1].id = 2
    /\ items[1].updatedAt > items[2].updatedAt

\* the number of positions of seq that hold e
Count(seq, e) == Cardinality({ i \in 1..Len(seq) : seq[i] = e })

\* a holds the elements of b, each as often as b does
SameEvents(a, b) ==
    /\ Len(a) = Len(b)
    /\ \A i \in 1..Len(b) : Count(a, b[i]) = Count(b, b[i])

\* C15: for any audit log content, getAuditLogs(limit, offset) returns its
\* events ordered non-increasing by timestamp, whatever the order in which
\* the store iterates them, and with limit >= the number of stored events
\* and offset = 0 it returns every stored event exactly once
C15_NewestFirst ==
    lastCall.op = "getAuditLogs" =>
        /\ \A i, j \in 1..Len(lastCall.logs) :
               i < j => lastCall.logs[i].timestamp
                          >= lastCall.logs[j].timestamp
        /\ (lastCall.limit >= Len(auditStore) /\ lastCall.offset = 0) =>
               SameEvents(lastCall.logs, auditStore)

\* C15 happens: the store iterates events of timestamps 5, 1, 3 and the
\* query of the whole log returned them as 5, 3, 1
C15_Witness ==
    /\ lastCall.op = "getAuditLogs"
    /\ Len(auditStore) = 3
    /\ [i \in 1..3 |-> auditStore[i].timestamp] = <<5, 1, 3>>
    /\ lastCall.limit >= 3
    /\ lastCall.offset = 0
    /\ Len(lastCall.logs) = 3
    /\ [i \in 1..3 |-> lastCall.logs[i].timestamp] = <<5, 3, 1>>

\* the page of the log: the events at the positions offset+1 .. offset+limit
\* of the store's iteration, as far as there are any
PageOf(log, limit, offset) ==
    [i \in 1..(IF Len(log) - offset <= 0 THEN 0
               ELSE IF limit < Len(log) - offset THEN limit
               ELSE Len(log) - offset) |-> log[offset + i]]

\* C16: getAuditLogs(limit, offset) on a log of N events returns exactly
\* the events at the store-iteration positions offset .. offset+limit-1,
\* min(limit, max(0, N-offset)) of them, sorted by timestamp after that
\* window was selected: an event outside the window is never returned,
\* also when its timestamp is larger than every returned one
C16_PageThenSort ==
    lastCall.op = "getAuditLogs" =>
        SameEvents(lastCall.logs,
                   PageOf(auditStore, lastCall.limit, lastCall.offset))

\* C16 happens: of the log 5, 1, 3 the query with limit 2 and offset 1
\* returned the events of timestamps 3 and 1, not the newest one
C16_Witness ==
    /\ lastCall.op = "getAuditLogs"
    /\ Len(auditStore) = 3
    /\ [i \in 1..3 |-> auditStore[i].timestamp] = <<5, 1, 3>>
    /\ lastCall.limit = 2
    /\ lastCall.offset = 1
    /\ Len(lastCall.logs) = 2
    /\ [i \in 1..2 |-> lastCall.logs[i].timestamp] = <<3, 1>>

\* the values a store holds
Values(map) == { map[k] : k \in DOMAIN map }
Events(log) == { log[i] : i \in 1..Len(log) }

\* the stored values of the document that are structured: the envelopes of
\* its data map and the salt of its meta map
Structured(doc) ==
    Values(doc.data)
      \cup (IF "authSalt" \in DOMAIN doc.meta THEN {doc.meta["authSalt"]}
            ELSE {})

\* C17: exportVaultData returns a document whose meta map is the whole
\* metadata namespace and whose data map is the whole records namespace at
\* the time of the call; the document holds no entry of the key namespace
\* and no audit event, and the call modifies no namespace
C17_ExportStep ==
    Called("exportVaultData") =>
        /\ IsJson(exportFile')
        /\ LET doc == JsonParse(exportFile')
           IN  /\ DOMAIN doc = {"meta", "data", "timestamp"}
               /\ doc.meta = metaStore
               /\ doc.data = dataStore
               /\ doc.timestamp = now
               /\ Values(keyStore) \cap Structured(doc) = {}
               /\ Events(auditStore) \cap Structured(doc) = {}
        /\ UNCHANGED storeVars
C17_ExportIsMetaAndData == [][C17_ExportStep]_vars

\* C17 happens: an export was taken of a vault that holds a master key, a
\* record and audit events
C17_Witness ==
    /\ lastCall.op = "exportVaultData"
    /\ IsJson(exportFile)
    /\ JsonParse(exportFile).data = dataStore
    /\ dataStore # Empty
    /\ JsonParse(exportFile).meta = metaStore
    /\ HasMeta(St, "authSalt")
    /\ GetKey(St, "masterKey") # NoKey
    /\ auditStore # <<>>

\* the store new is the store old with every entry of the map upserted
Upserted(old, map, new) ==
    /\ DOMAIN new = DOMAIN old \cup DOMAIN map
    /\ \A k \in DOMAIN map : new[k] = map[k]
    /\ \A k \in DOMAIN old \ DOMAIN map : new[k] = old[k]

\* C18: after a successful importVaultData(doc) every key of doc.meta and
\* doc.data holds doc's value in the metadata resp. records namespace,
\* every key of those namespaces that doc does not hold is unchanged, the
\* key namespace is unchanged, and exactly one IMPORT audit event was
\* appended whose metaCount and dataCount are the numbers of entries of
\* doc.meta and doc.data
C18_ImportStep ==
    (Called("importVaultData") /\ lastCall'.ok
       /\ ~HasMembers(lastCall'.file)) =>
        LET doc == JsonParse(lastCall'.file)
        IN  /\ Upserted(metaStore, doc.meta, metaStore')
            /\ Upserted(dataStore, doc.data, dataStore')
            /\ keyStore' = keyStore
            /\ auditStore' = Append(auditStore, AuditEvent("IMPORT", now,
                   [timestamp |-> doc.timestamp,
                    metaCount |-> Cardinality(DOMAIN doc.meta),
                    dataCount |-> Cardinality(DOMAIN doc.data)]))
C18_ImportUpserts == [][C18_ImportStep]_vars

\* C18 happens: a document holding one record was imported into a store
\* that holds a second record, sealed under another key; both are there
\* and the IMPORT event counts one record
C18_Witness ==
    /\ lastCall.op = "importVaultData"
    /\ lastCall.ok
    /\ lastCall.file = exportFile
    /\ DOMAIN JsonParse(exportFile).data = {1}
    /\ DOMAIN dataStore = {1, 2}
    /\ dataStore[1] = JsonParse(exportFile).data[1]
    /\ dataStore[2].ciphertext.k # dataStore[1].ciphertext.k
    /\ metaStore["authSalt"] = JsonParse(exportFile).meta["authSalt"]
    /\ LastEvent.type = "IMPORT"
    /\ LastEvent.details.dataCount = 1
    /\ LastEvent.details.metaCount = 3

\* the file the user holds is an export of the two namespaces as they are
\* now: nothing was written to them since exportVaultData
ExportIsCurrent ==
    /\ IsJson(exportFile)
    /\ JsonParse(exportFile).meta = metaStore
    /\ JsonParse(exportFile).data = dataStore

\* the listing refreshItems computes from the stores st under the key k
Listing(st, k) == RefreshItems(st, TRUE, k, <<>>)

\* C19: importVaultData(exportVaultData()) with no mutation in between
\* leaves the records namespace, hence the item listing, and the metadata
\* namespace identical to what they were; the only change to the store is
\* one new IMPORT audit event, also when the import is repeated
C19_ReimportStep ==
    (Called("importVaultData") /\ lastCall'.file = exportFile
       /\ ExportIsCurrent) =>
        /\ lastCall'.ok
        /\ dataStore' = dataStore
        /\ metaStore' = metaStore
        /\ keyStore' = keyStore
        /\ Listing(St', masterKey) = Listing(St, masterKey)
        /\ Len(auditStore') = Len(auditStore) + 1
        /\ SubSeq(auditStore', 1, Len(auditStore)) = auditStore
        /\ auditStore'[Len(auditStore')].type = "IMPORT"
        /\ ExportIsCurrent'
C19_ReimportChangesNothing == [][C19_ReimportStep]_vars

\* C19 happens: the export of a vault holding a record was imported into
\* that same vault a day later; the record lists as before
C19_Witness ==
    /\ lastCall.op = "importVaultData"
    /\ lastCall.ok
    /\ lastCall.file = exportFile
    /\ ExportIsCurrent
    /\ dataStore # Empty
    /\ Len(items) = 1
    /\ Listing(St, masterKey) = items
    /\ LastEvent.type = "IMPORT"
    /\ LastEvent.timestamp > JsonParse(exportFile).timestamp

\* C19 happens as well twice in a row: the last two audit events are the
\* IMPORT events of two imports of the same export
C19_WitnessRepeated ==
    /\ lastCall.op = "importVaultData"
    /\ lastCall.ok
    /\ lastCall.file = exportFile
    /\ ExportIsCurrent
    /\ Len(auditStore) >= 2
    /\ LastEvent.type = "IMPORT"
    /\ auditStore[Len(auditStore) - 1].type = "IMPORT"

\* the picked file is no JSON, or its meta or data member is missing or is
\* not a map
NotAVaultDocument(file) ==
    \/ ~IsJson(file)
    \/ /\ HasMembers(file)
       /\ \/ file.members.meta.kind # "object"
          \/ file.members.data.kind # "object"

\* C20: importVaultData on input that is not valid JSON, or whose meta or
\* data member is missing or not a map, fails with the import-corrupt
\* error and appends no IMPORT audit event
C20_CorruptStep ==
    (Called("importVaultData") /\ NotAVaultDocument(lastCall'.file)) =>
        /\ ~lastCall'.ok
        /\ auditStore' = auditStore
C20_CorruptImportFails == [][C20_CorruptStep]_vars

\* C20 fails here: the import of a JSON document whose meta and data
\* members are numbers returned without an error and appended an IMPORT
\* event that counts no entry
C20_NumbersImported ==
    /\ lastCall.op = "importVaultData"
    /\ lastCall.ok
    /\ HasMembers(lastCall.file)
    /\ lastCall.file.members.meta.kind = "number"
    /\ lastCall.file.members.data.kind = "number"
    /\ LastEvent.type = "IMPORT"
    /\ LastEvent.details.metaCount = 0
    /\ LastEvent.details.dataCount = 0

\* and here: the import of a document whose meta member is a string stored
\* its characters as metadata entries and appended an IMPORT event
C20_StringImported ==
    /\ lastCall.op = "importVaultData"
    /\ lastCall.ok
    /\ HasMembers(lastCall.file)
    /\ lastCall.file.members.meta.kind = "string"
    /\ HasMeta(St, "0")
    /\ LastEvent.type = "IMPORT"
    /\ LastEvent.details.metaCount = 2

\* the part of C20 that holds: a file that is no JSON, and a document
\* whose meta or data member is missing or null, make the import fail
\* without an IMPORT event
C20_UnreadableStep ==
    (/\ Called("importVaultData")
     /\ \/ ~IsJson(lastCall'.file)
        \/ /\ HasMembers(lastCall'.file)
           /\ \/ ObjectEntriesThrows(lastCall'.file.members.meta)
              \/ ObjectEntriesThrows(lastCall'.file.members.data)) =>
        /\ ~lastCall'.ok
        /\ auditStore' = auditStore
C20_UnreadableImportFails == [][C20_UnreadableStep]_vars

\* a document whose data member is missing failed after its meta entries
\* were written: the salt is the document's
C20_FailedAfterMetaWritten ==
    /\ lastCall.op = "importVaultData"
    /\ ~lastCall.ok
    /\ HasMembers(lastCall.file)
    /\ lastCall.file.members.data.kind = "undefined"
    /\ HasMeta(St, "authSalt")
    /\ GetMeta(St, "authSalt") = SaltToHex(2)

\* the entries of a chaffed object that are marked real
RealEntries(chaffed) ==
    { index \in DOMAIN chaffed :
          chaffed[index] # Undefined /\ chaffed[index].isReal }

\* C21: for every outcome of the random draws, addChaffToData(fields, r)
\* on n fields returns exactly n * (r + 1) entries, of which exactly n are
\* marked real, one per original field and carrying that field's value
C21_ChaffCounts ==
    lastCall.op = "addChaffToData" =>
        /\ Len(lastCall.chaffed) = Len(lastCall.data) * (lastCall.ratio + 1)
        /\ Cardinality(RealEntries(lastCall.chaffed)) = Len(lastCall.data)
        /\ \E of \in [RealEntries(lastCall.chaffed) -> DOMAIN lastCall.data] :
               /\ \A k \in DOMAIN lastCall.data :
                      \E index \in RealEntries(lastCall.chaffed) :
                          of[index] = k
               /\ \A index \in RealEntries(lastCall.chaffed) :
                      lastCall.chaffed[index].value
                          = lastCall.data[of[index]].value

\* C21, a chaff key that repeats the real key of its field: the object has
\* n * (r + 1) entries, none undefined, and fewer than n are marked real
C21_RealEntryOverwritten ==
    /\ lastCall.op = "addChaffToData"
    /\ Len(lastCall.chaffed) = Len(lastCall.data) * (lastCall.ratio + 1)
    /\ \A index \in DOMAIN lastCall.chaffed :
           lastCall.chaffed[index] # Undefined
    /\ Cardinality(RealEntries(lastCall.chaffed)) < Len(lastCall.data)

\* C21, a shuffle that drew the byte 255: the object has more than
\* n * (r + 1) entries and one of them is undefined
C21_UndefinedEntry ==
    /\ lastCall.op = "addChaffToData"
    /\ Len(lastCall.chaffed) > Len(lastCall.data) * (lastCall.ratio + 1)
    /\ \E index \in DOMAIN lastCall.chaffed :
           lastCall.chaffed[index] = Undefined

\* C22: for every field map and every ratio r >= 0,
\* removeChaffFromData(addChaffToData(fields, r)) returns a map equal to
\* fields
C22_ChaffRoundTrip ==
    lastCall.op = "removeChaffFromData" =>
        /\ ~lastCall.threw
        /\ lastCall.result = AsMap(lastCall.data)

\* C22, a map of two fields chaffed without a repeated key and without an
\* undefined entry: what comes back has the single property "" holding the
\* value of the last real entry
C22_OnlyEmptyName ==
    /\ lastCall.op = "removeChaffFromData"
    /\ Len(lastCall.data) = 2
    /\ Cardinality(RealEntries(lastCall.chaffed)) = 2
    /\ \A index \in DOMAIN lastCall.chaffed :
           lastCall.chaffed[index] # Undefined
    /\ ~lastCall.threw
    /\ DOMAIN lastCall.result = {<< >>}
    /\ lastCall.result # AsMap(lastCall.data)

\* C22, an object with an undefined entry: removeChaffFromData throws
C22_RemoveThrows ==
    /\ lastCall.op = "removeChaffFromData"
    /\ lastCall.threw

\* C22, the empty map is the one that comes back as it was
C22_EmptyMapOnly ==
    (lastCall.op = "removeChaffFromData" /\ ~lastCall.threw
       /\ lastCall.result = AsMap(lastCall.data))
        => lastCall.data = << >>

\* the elements of an array, undefined ones included
Elements(array) == { array[k] : k \in DOMAIN array }

\* C28: in shuffleArray the swap index j computed in an iteration satisfies
\* 0 <= j <= i for the loop index i and every byte 0..255, so that the
\* array left by the loop is a permutation of the input: same length, same
\* elements, no undefined element
C28_SwapIndexInRange ==
    (lastCall.op = "shuffleArray" /\ lastCall.swaps > 0) =>
        /\ 0 <= lastCall.j
        /\ lastCall.j <= lastCall.at
        /\ Len(lastCall.array) = Len(lastCall.input)
        /\ Elements(lastCall.array) = Elements(lastCall.input)

\* C28, the byte 255 in the first iteration: j = array.length, the array
\* is one element longer and array[i] is undefined
C28_IndexPastTheEnd ==
    /\ lastCall.op = "shuffleArray"
    /\ lastCall.swaps = 1
    /\ lastCall.j = lastCall.at + 1
    /\ lastCall.j = Len(lastCall.input)
    /\ Len(lastCall.array) = Len(lastCall.input) + 1
    /\ lastCall.array[lastCall.at + 1] = Undefined

\* C28, the bytes below 255: at every loop index the shuffle reaches, each
\* of them gives 0 <= j <= i
C28_InRangeBelow255 ==
    (lastCall.op = "shuffleArray" /\ lastCall.i > 0) =>
        \A byte \in 0..254 : SwapIndex(lastCall.i, byte) \in 0..lastCall.i

\* C28, a loop that never drew 255 leaves a permutation of the input
C28_PermutationBelow255 ==
    (lastCall.op = "shuffleArray" /\ lastCall.i <= 0
       /\ Undefined \notin Elements(lastCall.array)) =>
        /\ Len(lastCall.array) = Len(lastCall.input)
        /\ Elements(lastCall.array) = Elements(lastCall.input)

\* the envelope decodes to the bytes that were sealed
SameBytes(envelope, sealed) ==
    /\ IsBase64(envelope.ciphertext)
    /\ IsBase64(envelope.iv)
    /\ Base64ToArrayBuffer(envelope.ciphertext)
         = Base64ToArrayBuffer(sealed.ciphertext)
    /\ Base64ToArrayBuffer(envelope.iv) = Base64ToArrayBuffer(sealed.iv)

\* JSON.parse(JSON.stringify(data)) is data
JsonRepresentable(data) == EncodeJson(data) = JsonStringify(data)

C23_WitnessRoundTrip ==
    /\ lastCall.op = "decryptData"
    /\ lastCall.with = lastCall.key
    /\ lastCall.envelope = lastCall.sealed
    /\ lastCall.data.kind = "string"
    /\ lastCall.decrypt = lastCall.data

\* C23: the unaltered envelope is opened with another key and fails
C23_WitnessOtherKey ==
    /\ lastCall.op = "decryptData"
    /\ lastCall.with # lastCall.key
    /\ lastCall.envelope = lastCall.sealed
    /\ lastCall.threw = DecryptError
    /\ lastCall.decrypt = NoItem

\* C23, a ciphertext text altered in its spelling only: the sealing key
\* opens it and the sealed value is returned
C23_RespelledOpens ==
    /\ lastCall.op = "decryptData"
    /\ lastCall.envelope.ciphertext # lastCall.sealed.ciphertext
    /\ lastCall.threw = NoThrow
    /\ lastCall.value = lastCall.data

\* C23, a text that is no base64: atob's error, not the decryption error
C23_AtobThrows ==
    /\ lastCall.op = "decryptData"
    /\ lastCall.threw = AtobError
    /\ lastCall.decrypt = NoItem

\* C23, a Date sealed and opened unaltered with the sealing key comes back
\* as a string
C23_DateComesBackAsString ==
    /\ lastCall.op = "decryptData"
    /\ lastCall.envelope = lastCall.sealed
    /\ lastCall.data.kind = "date"
    /\ lastCall.threw = NoThrow
    /\ lastCall.value.kind = "string"

\* the ITEM_* events of an audit log, in order
ItemEvents(log) ==
    SelectSeq(log, LAMBDA e : e.type \in {"ITEM_CREATE", "ITEM_UPDATE",
                                          "ITEM_DELETE"})

\* no call of the DataProvider is in flight
Quiescent == \A c \in DOMAIN calls : calls[c].pc = "done"

\* C24: while the vault is locked -- from a logout to the next successful
\* login -- no step writes or removes an entry of the records namespace
\* and none appends an ITEM_* audit event, the steps of createItem,
\* updateItem and deleteItem calls made before the logout included
C24_NoWriteWhileLocked ==
    [][~isAuthenticated =>
           /\ dataStore' = dataStore
           /\ ItemEvents(auditStore') = ItemEvents(auditStore)]_vars

\* C24, an updateItem made before the logout: its storeData lands in the
\* locked vault with an envelope sealed under the discarded key
C24_StaleStore ==
    /\ ~isAuthenticated
    /\ masterKey = NoKey
    /\ lastCall.op = "updateItem"
    /\ "pc" \in DOMAIN lastCall
    /\ lastCall.pc = "store"
    /\ dataStore[calls[lastCall.call].id] = calls[lastCall.call].encrypted
    /\ calls[lastCall.call].encrypted.ciphertext.k = calls[lastCall.call].key

\* C24, the same for the audit event of a call made before the logout
C24_StaleEvent ==
    /\ ~isAuthenticated
    /\ "pc" \in DOMAIN lastCall
    /\ lastCall.pc = "log"
    /\ auditStore # << >>
    /\ auditStore[Len(auditStore)].type
         \in {"ITEM_CREATE", "ITEM_UPDATE", "ITEM_DELETE"}

\* C24, the calls made in a locked vault: a call is entered only while
\* isAuthenticated holds
C24_NoCallEnteredLocked ==
    [][~isAuthenticated => Len(calls') = Len(calls)]_vars

\* the call c is an updateItem that returned true
UpdateSucceeded(c) ==
    /\ calls[c].op = "updateItem"
    /\ calls[c].pc = "done"
    /\ calls[c].ok

\* the stored record id, opened with the key k, holds the fields of updates
HoldsUpdates(id, k, updates) ==
    /\ CurrentItem(St, k, id) # NoItem
    /\ \A f \in DOMAIN updates : CurrentItem(St, k, id)[f] = updates[f]

\* C25: when two updateItem calls on one id that change different fields
\* have both returned success, the stored record holds both changes,
\* overlapping calls included
C25_BothUpdatesKept ==
    \A c1, c2 \in DOMAIN calls :
        (/\ c1 # c2
         /\ UpdateSucceeded(c1)
         /\ UpdateSucceeded(c2)
         /\ calls[c1].id = calls[c2].id
         /\ DOMAIN calls[c1].updates \cap DOMAIN calls[c2].updates = {}) =>
            /\ HoldsUpdates(calls[c1].id, calls[c1].key, calls[c1].updates)
            /\ HoldsUpdates(calls[c2].id, calls[c2].key, calls[c2].updates)

\* C25, the lost update: two updates of the name and of the data of record
\* 1 both returned true, and the stored record has the new data with the
\* name it was created with
C25_LostUpdate ==
    /\ Len(calls) = 2
    /\ UpdateSucceeded(1)
    /\ UpdateSucceeded(2)
    /\ calls[1].id = calls[2].id
    /\ calls[1].updates = [name |-> "Bank2"]
    /\ calls[2].updates = [data |-> "d2"]
    /\ CurrentItem(St, calls[2].key, calls[2].id) # NoItem
    /\ CurrentItem(St, calls[2].key, calls[2].id).data = "d2"
    /\ CurrentItem(St, calls[2].key, calls[2].id).name = "Bank"

\* C25, the schedules that keep both changes, such as a second call that
\* is entered after the first returned
C25_SequentialKept ==
    /\ Len(calls) = 2
    /\ UpdateSucceeded(1)
    /\ UpdateSucceeded(2)
    /\ calls[1].updates = [name |-> "Bank2"]
    /\ calls[2].updates = [data |-> "d2"]
    /\ HoldsUpdates(calls[1].id, calls[1].key, calls[1].updates)
    /\ HoldsUpdates(calls[2].id, calls[2].key, calls[2].updates)

\* the removeData of a deleteItem(id) call has landed
DeleteLanded(id) ==
    \E c \in DOMAIN calls :
        /\ calls[c].op = "deleteItem"
        /\ calls[c].id = id
        /\ calls[c].pc # "remove"

\* a createItem call is about to store the record id for the first time
CreateInFlight(id) ==
    \E c \in DOMAIN calls :
        /\ calls[c].op = "createItem"
        /\ calls[c].id = id
        /\ calls[c].pc = "store"

\* C26: a deleted record stays deleted -- once the removeData of a
\* deleteItem(id) has landed and the record is gone, no step stores a
\* record under id again, not even the step of an updateItem that had read
\* the record before the delete
C26_DeletedStaysDeleted ==
    [][\A id \in ItemIds :
           (/\ DeleteLanded(id)
            /\ id <= nextId
            /\ ~CreateInFlight(id)
            /\ ~Has(dataStore, id)) => ~Has(dataStore', id)]_vars

\* C26, the record comes back: deleteItem(1) returned true, and after it
\* the storeData of an updateItem(1) that had read the record before the
\* delete stored the merged record
C26_Resurrected ==
    /\ \E c \in DOMAIN calls :
           /\ calls[c].op = "deleteItem"
           /\ calls[c].id = 1
           /\ calls[c].pc = "done"
           /\ calls[c].ok
    /\ lastCall.op = "updateItem"
    /\ "pc" \in DOMAIN lastCall
    /\ lastCall.pc = "store"
    /\ calls[lastCall.call].id = 1
    /\ Has(dataStore, 1)
    /\ dataStore[1] = calls[lastCall.call].encrypted

\* C26, an updateItem entered after the delete landed finds no record,
\* fails and stores nothing
C26_LateUpdateFails ==
    [][\A id \in ItemIds, updates \in AsyncUpdates, iv \in IVs :
           (BeginUpdate(id, updates, iv) /\ ~Has(dataStore, id)) =>
               /\ calls'[Len(calls')].pc = "done"
               /\ ~calls'[Len(calls')].ok]_vars

\* C27: in every quiescent locked state -- isAuthenticated false after the
\* mount, no call in flight -- the provider's items list is empty; a
\* refreshItems that was in flight at the logout does not fill it again
C27_LockedListEmpty ==
    (mounted /\ ~isAuthenticated /\ Quiescent) => items = << >>

\* C27, a refreshItems in flight at the logout: it has returned, the vault
\* is locked with no key in memory, and the list shows the decrypted record
C27_ListRefilled ==
    /\ mounted
    /\ ~isAuthenticated
    /\ masterKey = NoKey
    /\ Quiescent
    /\ \E c \in DOMAIN calls :
           /\ calls[c].op = "refreshItems"
           /\ calls[c].ok
           /\ items = calls[c].loaded
    /\ items # << >>

\* C27, the logout itself: a logout of an unlocked vault leaves the list
\* empty
C27_LogoutEmptiesList ==
    [][(Logout /\ isAuthenticated) => items' = << >>]_vars

\* the stored lastKeyRotation, a missing value counting as 0
LastRotation == IF HasMeta(St, "lastKeyRotation")
                THEN GetMeta(St, "lastKeyRotation") ELSE 0

\* the lastKeyRotation entry is after the step as it was before it
RotationUnchanged ==
    /\ ("lastKeyRotation" \in DOMAIN metaStore')
         = ("lastKeyRotation" \in DOMAIN metaStore)
    /\ "lastKeyRotation" \in DOMAIN metaStore =>
           metaStore'["lastKeyRotation"] = metaStore["lastKeyRotation"]

\* a login step in which authenticateWithPassword returned success
SuccessfulLogin == Called("login") /\ lastCall'.authSuccess

\* C29 as stated: a successful authenticateWithPassword sets
\* lastKeyRotation to the current time iff strictly more than 30 days have
\* elapsed since the stored value (a missing value counting as 0); when 30
\* days or less have elapsed it leaves the entry unchanged
C29_RotationAfterMoreThan30Days ==
    [][SuccessfulLogin =>
           IF now - LastRotation > RotationDays
           THEN /\ "lastKeyRotation" \in DOMAIN metaStore'
                /\ metaStore'["lastKeyRotation"] = now
           ELSE RotationUnchanged]_vars

\* C29, amended: a successful authenticateWithPassword sets lastKeyRotation
\* to the current time iff at least 30 days have elapsed since the stored
\* value (a missing value counting as 0); when less than 30 days have
\* elapsed it leaves the entry unchanged
C29_RotationAfter30Days ==
    [][SuccessfulLogin =>
           IF now - LastRotation >= RotationDays
           THEN /\ "lastKeyRotation" \in DOMAIN metaStore'
                /\ metaStore'["lastKeyRotation"] = now
           ELSE RotationUnchanged]_vars

\* C29: a successful login exactly 30 days after the vault was initialized
\* has set lastKeyRotation to the day of the login
C29_Witness ==
    /\ lastCall.op = "login"
    /\ lastCall.authSuccess
    /\ now = RotationDays
    /\ auditStore[1].type = "AUTH_INIT"
    /\ auditStore[1].timestamp = 0
    /\ auditStore[Len(auditStore)].timestamp = now
    /\ Len(auditStore) = 2
    /\ metaStore["lastKeyRotation"] = now

\* C29: a successful login 29 days after the vault was initialized has left
\* lastKeyRotation as it was
C29_WitnessUnchanged ==
    /\ lastCall.op = "login"
    /\ lastCall.authSuccess
    /\ now = RotationDays - 1
    /\ auditStore[Len(auditStore)].timestamp = now
    /\ Len(auditStore) = 2
    /\ metaStore["lastKeyRotation"] = 0

\* C29: a successful login 31 days after the vault was initialized has set
\* lastKeyRotation
C29_WitnessLater ==
    /\ lastCall.op = "login"
    /\ lastCall.authSuccess
    /\ now = RotationDays + 1
    /\ auditStore[Len(auditStore)].timestamp = now
    /\ Len(auditStore) = 2
    /\ metaStore["lastKeyRotation"] = now

\* C29, the missing entry: with lastKeyRotation removed from the store, a
\* successful authenticateWithPassword stores the current time iff at least
\* 30 days have passed since time 0
C29_MissingCountsAsZero ==
    (vault # NoItem) =>
        LET st == [St EXCEPT !.meta = Remove(@, "lastKeyRotation")]
            r  == AuthenticateWithPassword(st, vault.pw, now, 0, FALSE)
        IN  /\ r.success
            /\ HasMeta(r.st, "lastKeyRotation") <=> (now >= RotationDays)
            /\ HasMeta(r.st, "lastKeyRotation") =>
                   GetMeta(r.st, "lastKeyRotation") = now

\* b is a, or a with events appended
Extends(b, a) ==
    /\ Len(b) >= Len(a)
    /\ SubSeq(b, 1, Len(a)) = a

\* the meta entry id is after the step as it was before it
MetaEntryUnchanged(id) ==
    /\ (id \in DOMAIN metaStore') = (id \in DOMAIN metaStore)
    /\ id \in DOMAIN metaStore => metaStore'[id] = metaStore[id]

\* C30: authenticateWithPassword, whether it succeeds, mismatches or
\* errors, modifies neither the masterKey entry nor the authSalt entry nor
\* any record, and only appends to the audit log; an attempt that fails
\* changes nothing else in the store, and leaves lastKeyRotation as it was
C30_AuthenticateFrame ==
    [][Called("login") =>
           /\ keyStore' = keyStore
           /\ dataStore' = dataStore
           /\ MetaEntryUnchanged("authSalt")
           /\ Extends(auditStore', auditStore)
           /\ \A id \in DOMAIN metaStore' \cup DOMAIN metaStore :
                  id # "lastKeyRotation" => MetaEntryUnchanged(id)
           /\ ~lastCall'.authSuccess => metaStore' = metaStore]_vars

\* C30: a login with a wrong password, made when a rotation is due, has
\* appended its AUTH_ATTEMPT event and left lastKeyRotation as it was
C30_Witness ==
    /\ lastCall.op = "login"
    /\ ~lastCall.authSuccess
    /\ ~lastCall.authThrew
    /\ lastCall.logged = 1
    /\ auditStore[Len(auditStore)].type = "AUTH_ATTEMPT"
    /\ auditStore[Len(auditStore)].timestamp = now
    /\ HasMeta(St, "lastKeyRotation")
    /\ now - GetMeta(St, "lastKeyRotation") >= RotationDays
    /\ GetKey(St, "masterKey") # NoKey

\* C30: a login with the right password that rotated: the masterKey entry
\* is the one initializeAuth wrote
C30_WitnessRotated ==
    /\ lastCall.op = "login"
    /\ lastCall.authSuccess
    /\ now >= RotationDays
    /\ GetMeta(St, "lastKeyRotation") = now
    /\ VaultAsWritten

\* C30: a login that ended in the catch block
C30_WitnessError ==
    /\ lastCall.op = "login"
    /\ ~lastCall.authSuccess
    /\ lastCall.logged = 1
    /\ auditStore[Len(auditStore)].type = "AUTH_ERROR"

\* an initializeAuth that returned false
InitializeReturnedFalse ==
    /\ lastCall.op = "initialize"
    /\ ~lastCall.authOk
    /\ ~lastCall.authThrew

\* C31: an initializeAuth that returns false has left the key store and
\* the meta store as they were before the call; a masterKey entry exists
\* iff an authSalt entry exists; after the failed call isAuthRequired is
\* still false
C31_FailedInitializeLeavesNothing ==
    [][(Called("initialize") /\ ~lastCall'.authOk /\ ~lastCall'.authThrew) =>
           /\ keyStore' = keyStore
           /\ metaStore' = metaStore
           /\ Has(keyStore', "masterKey") <=> Has(metaStore', "authSalt")
           /\ IsAuthRequired(St) = IsAuthRequired(
                  [key |-> keyStore', data |-> dataStore',
                   meta |-> metaStore', audit |-> auditStore'])]_vars

\* C31: initializeAuth returned false after storeKey had completed and
\* storeMeta('authSalt') had rejected: the masterKey entry is there, the
\* authSalt entry is not, the failure is logged, the vault is not flagged
\* initialized and isAuthRequired is true
C31_KeyWithoutSalt ==
    /\ InitializeReturnedFalse
    /\ Has(keyStore, "masterKey")
    /\ ~Has(metaStore, "authSalt")
    /\ IsAuthRequired(St)
    /\ ~IsVaultInitialized(St)
    /\ ~isInitialized
    /\ auditStore[Len(auditStore)].type = "AUTH_INIT"
    /\ ~auditStore[Len(auditStore)].details.success

\* C31: initializeAuth returned false after both entries were written
\* (the lastKeyRotation write or the audit write rejected)
C31_KeyAndSaltLeft ==
    /\ InitializeReturnedFalse
    /\ Has(keyStore, "masterKey")
    /\ Has(metaStore, "authSalt")
    /\ ~IsVaultInitialized(St)

\* C31: a masterKey entry exists iff an authSalt entry exists
C31_KeyIffSalt ==
    Has(keyStore, "masterKey") <=> Has(metaStore, "authSalt")

\* C31: an initializeAuth whose first write, storeKey, rejected returns
\* false and leaves no entry behind
C31_FirstWriteFailedLeavesNothing ==
    [][(Called("initialize") /\ ~lastCall'.authOk /\ ~lastCall'.authThrew
            /\ ~Has(keyStore', "masterKey")) =>
           /\ keyStore' = keyStore
           /\ metaStore' = metaStore]_vars

\* the DataProvider's handlers
DataCalls ==
    {"createItem", "getItem", "updateItem", "deleteItem", "refreshItems"}

\* what a handler returns from its guard: null, false or nothing
ReturnsNothing(call) ==
    /\ call.of = "createItem" => call.id = 0
    /\ call.of = "getItem" => call.item = NoItem
    /\ call.of \in {"updateItem", "deleteItem"} => ~call.ok
    /\ call.of = "refreshItems" => DOMAIN call = {"op", "of"}

\* C32: a call of createItem, getItem, updateItem, deleteItem or
\* refreshItems made while the session is locked returns null, false or
\* nothing, leaves the four stores as they were (no record written or
\* removed, no audit event appended) and leaves the provider's state alone
C32_LockedCallFrame ==
    [][(~isAuthenticated /\ now' = now
            /\ lastCall'.op \in DataCalls \cup {"locked"}) =>
           /\ lastCall'.op = "locked"
           /\ lastCall'.of \in DataCalls
           /\ ReturnsNothing(lastCall')
           /\ UNCHANGED <<storeVars, authVars, dataVars, nextId>>]_vars

\* C32: updateItem was called for a stored record after a logout and
\* returned false
C32_Witness ==
    /\ ~isAuthenticated
    /\ lastCall.op = "locked"
    /\ lastCall.of = "updateItem"
    /\ ~lastCall.ok
    /\ dataStore # Empty
    /\ \E e \in DOMAIN auditStore : auditStore[e].type = "ITEM_CREATE"
    /\ \A e \in DOMAIN auditStore : auditStore[e].type # "ITEM_UPDATE"

\* C32: getItem was called for a stored record after a logout and returned
\* null, though the record opens under the vault's key
C32_WitnessGet ==
    /\ ~isAuthenticated
    /\ lastCall.op = "locked"
    /\ lastCall.of = "getItem"
    /\ lastCall.item = NoItem
    /\ vault # NoItem
    /\ \E id \in DOMAIN dataStore :
           GetItemResult(St, DeriveKeyFromPassword(vault.pw, vault.salt), id)
               # NoItem

\* C32: createItem, deleteItem and refreshItems were called in a locked
\* session
C32_WitnessCreate ==
    ~isAuthenticated /\ lastCall.op = "locked" /\ lastCall.of = "createItem"
        /\ lastCall.id = 0 /\ isInitialized
C32_WitnessDelete ==
    ~isAuthenticated /\ lastCall.op = "locked" /\ lastCall.of = "deleteItem"
        /\ dataStore # Empty
C32_WitnessRefresh ==
    ~isAuthenticated /\ lastCall.op = "locked" /\ lastCall.of = "refreshItems"
        /\ dataStore # Empty /\ items = << >>

\* C33: an importVaultData that throws has left the meta store and the
\* data store as they were before the call
C33_FailedImportLeavesNothing ==
    [][(Called("importVaultData") /\ ~lastCall'.ok) =>
           /\ metaStore' = metaStore
           /\ dataStore' = dataStore]_vars

\* C33: the import of a document with a meta object and no data member
\* threw after the meta entries were written: the vault's salt is replaced
\* by the document's, and no IMPORT event tells of it
C33_MetaOverwrittenByFailedImport ==
    /\ lastCall.op = "importVaultData"
    /\ ~lastCall.ok
    /\ HasMembers(lastCall.file)
    /\ lastCall.file.members.meta.kind = "object"
    /\ ObjectEntriesThrows(lastCall.file.members.data)
    /\ vault # NoItem
    /\ GetMeta(St, "authSalt") # SaltToHex(vault.salt)
    /\ GetMeta(St, "authSalt") = lastCall.file.members.meta.entries["authSalt"]
    /\ \A e \in DOMAIN auditStore : auditStore[e].type # "IMPORT"

\* C33: an importVaultData that throws before its first setItem -- the
\* text is no JSON, or the meta member is missing or null -- leaves the four
\* stores as they were
C33_FailedBeforeFirstWrite ==
    [][(/\ Called("importVaultData")
        /\ \/ ~IsJson(lastCall'.file)
           \/ /\ HasMembers(lastCall'.file)
              /\ ObjectEntriesThrows(lastCall'.file.members.meta)) =>
           /\ ~lastCall'.ok
           /\ UNCHANGED storeVars]_vars

\* C33: such an import was made into a vault that holds a record
C33_WitnessNoJson ==
    /\ lastCall.op = "importVaultData"
    /\ ~lastCall.ok
    /\ ~IsJson(lastCall.file)
    /\ dataStore # Empty

\* C34: once the mount effect has run, the provider's isInitialized equals
\* the persisted vaultInitialized flag; after a vault reset the provider is
\* uninitialized and the four stores are empty
C34_InitializedFlagIsPersisted ==
    mounted =>
        /\ isInitialized = IsVaultInitialized(St)
        /\ (lastCall.op = "handleReset" /\ lastCall.ok) =>
               /\ ~isInitialized
               /\ keyStore = Empty /\ dataStore = Empty
               /\ metaStore = Empty /\ auditStore = << >>

\* C34: after a vault reset the four stores are empty and the session is
\* locked, and the provider still holds isInitialized = true
C34_ResetLeavesInitialized ==
    /\ mounted
    /\ lastCall.op = "handleReset"
    /\ lastCall.ok
    /\ keyStore = Empty /\ dataStore = Empty
    /\ metaStore = Empty /\ auditStore = << >>
    /\ ~isAuthenticated
    /\ masterKey = NoKey
    /\ isInitialized
    /\ ~IsVaultInitialized(St)

\* C34: a login attempted on the reset vault: the Login page offered login,
\* not the set-up, and authenticateWithPassword found no salt
C34_LoginOfferedAfterReset ==
    /\ lastCall.op = "login"
    /\ ~lastCall.ok
    /\ isInitialized
    /\ ~IsVaultInitialized(St)
    /\ keyStore = Empty
    /\ auditStore[Len(auditStore)].type = "AUTH_ERROR"

\* C34: the flags differ only after a reset, until the page is reloaded:
\* a vault that was never reset has isInitialized equal to the persisted
\* flag in every state after the mount effect
C34_FlagsAgreeUnlessReset ==
    [][(mounted /\ isInitialized = IsVaultInitialized(St) /\ mounted'
            /\ ~(lastCall'.op = "handleReset" /\ lastCall' # lastCall)) =>
           isInitialized' = IsVaultInitialized(
               [key |-> keyStore', data |-> dataStore', meta |-> metaStore',
                audit |-> auditStore'])]_vars

\* C34: the mount effect after a reload of the reset vault finds it
\* uninitialized
C34_UninitializedAfterReload ==
    /\ lastCall.op = "checkInitialization"
    /\ vault = NoItem
    /\ nextId > 0
    /\ ~isInitialized
    /\ metaStore = Empty

\* every entry of the audit store before the step is in it after the step,
\* unchanged
EntriesKept ==
    \A id \in DOMAIN auditStore :
        id \in DOMAIN auditStore' /\ auditStore'[id] = auditStore[id]

\* C35: the audit log is append-only: every call of logAuditEvent, two
\* calls in the same millisecond included, leaves the entries it finds as
\* they are and adds one entry; no other operation than clearAllData
\* removes or replaces an entry
C35_AppendOnly ==
    [][/\ Called("logAuditEvent") =>
              /\ EntriesKept
              /\ Cardinality(DOMAIN auditStore')
                     = Cardinality(DOMAIN auditStore) + 1
       /\ ~Called("clearAllData") => EntriesKept]_vars

\* C35: two events were logged in the same millisecond with the same
\* suffix: the second call found its id in the store and replaced the
\* first event; the store has as many entries as before the call
C35_EntryReplaced ==
    /\ lastCall.op = "logAuditEvent"
    /\ lastCall.entries > 0
    /\ Cardinality(DOMAIN auditStore) = lastCall.entries
    /\ auditStore[lastCall.id] = lastCall.event
    /\ lastCall.event.type = "ITEM_DELETE"
    /\ \A id \in DOMAIN auditStore : auditStore[id].type = "ITEM_DELETE"

\* C35: no operation other than clearAllData removes an entry: the set of
\* log ids never shrinks, and a logAuditEvent whose id is not in the store
\* adds one entry and leaves the others as they are
C35_IdsKept ==
    [][/\ ~Called("clearAllData") => DOMAIN auditStore \subseteq DOMAIN auditStore'
       /\ (Called("logAuditEvent") /\ lastCall'.id \notin DOMAIN auditStore) =>
              /\ EntriesKept
              /\ Cardinality(DOMAIN auditStore')
                     = Cardinality(DOMAIN auditStore) + 1]_vars

\* C35: two events logged in the same millisecond under different suffixes
\* are both in the store
C35_SameMillisecondKept ==
    /\ lastCall.op = "logAuditEvent"
    /\ Cardinality(DOMAIN auditStore) = lastCall.entries + 1
    /\ \E id \in DOMAIN auditStore :
           id # lastCall.id /\ id[2] = lastCall.id[2]

\* the decoy entries of a chaffed object
Decoys(chaffed) ==
    { index \in DOMAIN chaffed :
          chaffed[index] # Undefined /\ ~chaffed[index].isReal }

\* decoy has the kind of the real value: a string for a string, an integer
\* in [0, 1000) for a number, a boolean for a boolean, the ISO text of a day
\* of the past year for a date
SameKind(decoy, real) ==
    CASE real.is = "string"  -> decoy.is = "string" /\ "iso" \notin DOMAIN decoy
      [] real.is = "number"  -> decoy.is = "number" /\ decoy.n \in 0..999
      [] real.is = "boolean" -> decoy.is = "boolean" /\ decoy.b \in BOOLEAN
      [] real.is = "Date"    -> /\ decoy.is = "string"
                                /\ "iso" \in DOMAIN decoy
                                /\ decoy.iso \in (now - 365)..now

\* C36: every decoy value that addChaffToData produces has the kind of the
\* real value of its field (of the one field, when the object has one): a
\* string for a string, an integer in [0, 1000) for a number, a boolean for
\* a boolean, an ISO date of the past year for a date
C36_DecoyHasKindOfField ==
    lastCall.op = "addChaffToData" =>
        \A index \in Decoys(lastCall.chaffed) :
            \E k \in DOMAIN lastCall.data :
                SameKind(lastCall.chaffed[index].value, lastCall.data[k].value)

\* C36: the decoy made for a field that holds a Date is a string of 10
\* random characters
C36_DateDecoyIsRandomString ==
    /\ lastCall.op = "addChaffToData"
    /\ lastCall.ratio = 1
    /\ Len(lastCall.data) = 1
    /\ lastCall.data[1].value.is = "Date"
    /\ Len(lastCall.chaffed) = 2
    /\ \E index \in Decoys(lastCall.chaffed) :
           lastCall.chaffed[index].value = [is |-> "string", length |-> 10]

\* C36: the decoys of string, number and boolean fields have the kind of
\* a field of the object
C36_PrimitiveDecoysMatch ==
    (/\ lastCall.op = "addChaffToData"
     /\ \A k \in DOMAIN lastCall.data : lastCall.data[k].value.is # "Date") =>
        \A index \in Decoys(lastCall.chaffed) :
            \E k \in DOMAIN lastCall.data :
                SameKind(lastCall.chaffed[index].value, lastCall.data[k].value)

\* C36: a number field with its decoy 999, a boolean field with its decoy
\* false, a string field with a decoy of 15 characters
C36_WitnessNumber ==
    /\ lastCall.op = "addChaffToData"
    /\ Len(lastCall.data) = 1
    /\ lastCall.data[1].value.is = "number"
    /\ \E index \in Decoys(lastCall.chaffed) :
           lastCall.chaffed[index].value = [is |-> "number", n |-> 999]
C36_WitnessBoolean ==
    /\ lastCall.op = "addChaffToData"
    /\ Len(lastCall.data) = 1
    /\ lastCall.data[1].value.is = "boolean"
    /\ \E index \in Decoys(lastCall.chaffed) :
           lastCall.chaffed[index].value = [is |-> "boolean", b |-> FALSE]
C36_WitnessString ==
    /\ lastCall.op = "addChaffToData"
    /\ Len(lastCall.data) = 1
    /\ lastCall.data[1].value.is = "string"
    /\ \E index \in Decoys(lastCall.chaffed) :
           lastCall.chaffed[index].value = [is |-> "string", length |-> 15]

\* C36: generateChaffValue('date') gives the ISO text of a day of the past
\* year, for both ends of Math.random()'s range
C36_DateBranch ==
    \A random \in MathRandom :
        SameKind(GenerateChaffValue("date", random, now),
                 [is |-> "Date", day |-> 0])

\* C37: every call of initialize and of login that was entered completes,
\* and isLoading is false when it has -- whether initializeAuth or
\* authenticateWithPassword succeeded, returned a failure or threw
C37_AuthCallsComplete ==
    \A c \in 1..MaxAuthCalls :
        (c \in DOMAIN calls /\ calls[c].pc = "await")
            ~> (c \in DOMAIN calls /\ calls[c].pc = "done" /\ ~isLoading)

\* C37: a login whose authenticateWithPassword threw has completed, and
\* isLoading is false
C37_Witness ==
    /\ lastCall.op = "login"
    /\ lastCall.authThrew
    /\ ~lastCall.ok
    /\ \E c \in DOMAIN calls : calls[c].op = "login" /\ calls[c].pc = "done"
    /\ \A c \in DOMAIN calls : calls[c].pc = "done"
    /\ ~isLoading

\* C37: an initialize whose initializeAuth threw, one that returned false
\* and one that succeeded have completed with isLoading false
C37_WitnessInitializeThrew ==
    /\ lastCall.op = "initialize"
    /\ lastCall.authThrew
    /\ \A c \in DOMAIN calls : calls[c].pc = "done"
    /\ ~isLoading
C37_WitnessInitializeFailed ==
    /\ lastCall.op = "initialize"
    /\ ~lastCall.authOk /\ ~lastCall.authThrew
    /\ \A c \in DOMAIN calls : calls[c].pc = "done"
    /\ ~isLoading
C37_WitnessSucceeded ==
    /\ lastCall.op = "login"
    /\ lastCall.ok
    /\ Len(calls) = 2
    /\ \A c \in DOMAIN calls : calls[c].pc = "done"
    /\ ~isLoading

\* C37: two calls overlapped: the first has completed and set isLoading to
\* false while the second is still at its await
C37_WitnessOverlap ==
    /\ Len(calls) >= 2
    /\ calls[1].pc = "done"
    /\ calls[2].pc = "await"
    /\ ~isLoading

\* C37: when no call is at its await, isLoading is false
C37_IdleIsNotLoading ==
    (mounted /\ \A c \in DOMAIN calls : calls[c].pc = "done") => ~isLoading

====
